---------------------------- MODULE Spec2Model ----------------------------
(***************************************************************************)
(* The ent backend of guac: ingestion of the Occurrence, Dependency and    *)
(* SBOM (BillOfMaterials) relations over a transactional relational store. *)
(*                                                                         *)
(* The store is a record of tables, each a set of rows.  A transaction     *)
(* holds the rows it has written and not yet committed (its overlay); it   *)
(* reads the committed rows overridden by its own overlay (READ COMMITTED).*)
(* An ingestion is a sequence of store calls; each is one step of the      *)
(* call record c.  A single ingestion run alone (Spec) is the composition  *)
(* of its steps; concurrent writers (SpecConc) and the units of a batch    *)
(* (SpecBatch) take the same steps one at a time.                          *)
(***************************************************************************)
EXTENDS Integers, Sequences, FiniteSets, TLC

VARIABLES db,      \* the committed store
          pre,     \* the committed store when the most recent call began
          last,    \* the most recent completed single call
          ncalls,  \* number of single calls made
          wr,      \* SpecConc/SpecBatch: the call record of each writer
          batch    \* SpecBatch: the batch call in progress

vars == <<db, pre, last, ncalls, wr, batch>>

-----------------------------------------------------------------------------
(* Bounds of the model *)

MaxCalls == 2       \* single calls in one behaviour of Spec
NumWriters == 2     \* concurrent writers of SpecConc
MaxBatch == 2       \* length of the relation array of a batch
MaxSbomCalls == 2   \* single calls in one behaviour of SpecSbom

(* Input domains *)

NULL == 0           \* a null foreign key; no identifier
Nil == "nil"        \* a nil pointer of the input (source, artifact)
NilPkg == [name |-> "", version |-> ""]   \* a nil package pointer
NoInput == [none |-> TRUE]

PkgNames == {"n1"}
PkgVersionStrs == {"v1", "v2"}
Pkgs == [name : PkgNames, version : PkgVersionStrs]
Srcs == {"s1"}
ArtKeys == {"a1", "a2"}          \* a2 is never ingested
Justifications == {"j1"}
Collectors == {"c1"}
Uris == {"u1"}
Digests == {"d1", "D1", "d2"}
Origins == {"o1", "o2"}

Max(S) == IF S = {} THEN 0 ELSE CHOOSE x \in S : \A y \in S : y <= x

-----------------------------------------------------------------------------
(* The store *)

Tables == {"artifact", "pkgName", "pkgVersion", "srcName",
           "occurrence", "dependency", "sbom"}

EmptyDb == [t \in Tables |-> {}]

(* The artifact table as left by earlier artifact ingestion: a1 exists. *)
InitDb == [EmptyDb EXCEPT !["artifact"] = {[id |-> 1, key |-> "a1"]}]

Ids(rows) == {r.id : r \in rows}

(* rows overridden by the rows of over that carry the same id *)
Override(rows, over) == {r \in rows : r.id \notin Ids(over)} \cup over

(* What a transaction with overlay tx reads. *)
Visible(d, tx) == [t \in Tables |-> Override(d[t], tx[t])]

(* The store assigns a fresh identifier: above every identifier of the  *)
(* table, committed or pending in any open transaction.                 *)
NextID(d, oth, tx, t) == 1 + Max(Ids(d[t]) \cup Ids(oth[t]) \cup Ids(tx[t]))

\* strings.ToLower on the digest values of the model
ToLower(s) ==
  CASE s = "D1" -> "d1"
    [] s = "A1" -> "a1"
    [] s = "SHA256" -> "sha256"
    [] OTHER -> s

-----------------------------------------------------------------------------
(* Errors.  set: the include set or entity the message names; ident: the   *)
(* identifier the message carries (NULL when it carries none).             *)

NoErr == [kind |-> "none", set |-> "", ident |-> NULL]
Err(k, s) == [kind |-> k, set |-> s, ident |-> NULL]
FaultErr == Err("store", "")

-----------------------------------------------------------------------------
(* The conflict-resolving upsert of the store (INSERT ... ON CONFLICT      *)
(* (cols) WHERE where ...), as the ent builders issue it.                  *)

\* a nil *sql.Predicate: the conflict target has no WHERE clause
NoWhere == [notnull |-> "", isnull |-> ""]

\* sql.And(sql.NotNull(w.notnull), sql.IsNull(w.isnull)) on row r
ConflictWhere(w, r) ==
  w = NoWhere \/ (r[w.notnull] # NULL /\ r[w.isnull] = NULL)

\* The rows of rows that collide with the candidate on the scoped key.
Colliding(rows, cand, cols, w) ==
  {r \in rows : /\ ConflictWhere(w, r)
                /\ ConflictWhere(w, cand)
                /\ \A col \in cols : r[col] = cand[col]}

(* The insert waits while another open transaction holds an uncommitted    *)
(* row with the same scoped key.                                           *)
Blocked(oth, t, cand, cols, w) == Colliding(oth[t], cand, cols, w) # {}

(* Mutant of Upsert: the row is inserted without a conflict clause.        *)
Upsert_Insert(d, oth, tx, t, cand, cols, w, policy) ==
  LET id == NextID(d, oth, tx, t)
  IN [tx |-> [tx EXCEPT ![t] = @ \cup {[cand EXCEPT !.id = id]}],
      id |-> id, norows |-> FALSE]

(* policy "UpdateNewValues": on conflict set every column to the new value;*)
(* "Ignore": on conflict set every column to itself; both return the row's *)
(* id.  "DoNothing": on conflict return no row (sql.ErrNoRows).            *)
Upsert(d, oth, tx, t, cand, cols, w, policy) ==
  LET hit == Colliding(Override(d[t], tx[t]), cand, cols, w)
  IN IF hit = {}
     THEN LET id == NextID(d, oth, tx, t)
          IN [tx |-> [tx EXCEPT ![t] = @ \cup {[cand EXCEPT !.id = id]}],
              id |-> id, norows |-> FALSE]
     ELSE LET r == CHOOSE x \in hit : TRUE
          IN CASE policy = "UpdateNewValues" ->
                    [tx |-> [tx EXCEPT ![t] = Override(@, {[cand EXCEPT !.id = r.id]})],
                     id |-> r.id, norows |-> FALSE]
               [] policy = "Ignore" ->
                    [tx |-> tx, id |-> r.id, norows |-> FALSE]
               [] OTHER ->
                    [tx |-> tx, id |-> NULL, norows |-> TRUE]

-----------------------------------------------------------------------------
(* Identity resolver: find or create the node of a package or source path, *)
(* inside the caller's transaction.                                        *)

PkgNameRow(p) == [id |-> NULL, name |-> p.name]
PkgVersionRow(nid, p) == [id |-> NULL, name_id |-> nid, version |-> p.version]
SrcNameRow(s) == [id |-> NULL, name |-> s]

getPkgName(d, oth, tx, p) ==
  Upsert(d, oth, tx, "pkgName", PkgNameRow(p), {"name"}, NoWhere, "Ignore")

getPkgVersion(d, oth, tx, p) ==
  LET n == getPkgName(d, oth, tx, p)
  IN Upsert(d, oth, n.tx, "pkgVersion", PkgVersionRow(n.id, p),
            {"name_id", "version"}, NoWhere, "Ignore")

upsertSource(d, oth, tx, s) ==
  Upsert(d, oth, tx, "srcName", SrcNameRow(s), {"name"}, NoWhere, "Ignore")

\* The resolver waits on a node another open transaction is creating.
BlockedPkgName(oth, p) ==
  Blocked(oth, "pkgName", PkgNameRow(p), {"name"}, NoWhere)

BlockedPkgVersion(d, oth, tx, p) ==
  \/ BlockedPkgName(oth, p)
  \/ LET n == getPkgName(d, oth, tx, p)
     IN Blocked(oth, "pkgVersion", PkgVersionRow(n.id, p),
                {"name_id", "version"}, NoWhere)

BlockedSource(oth, s) ==
  Blocked(oth, "srcName", SrcNameRow(s), {"name"}, NoWhere)

-----------------------------------------------------------------------------
(* A call in progress.                                                     *)
(*   pc: the store call it makes next; tx: its transaction's overlay;      *)
(*   row, cols, where: the create builder, the conflict columns and the    *)
(*   conflict predicate built so far; id, err: what it returns;            *)
(*   fault: the pc at which a store call failed under it ("none" if none); *)
(*   missing: the include identifier a lookup did not find.                *)

NewCall(op, in) ==
  [op |-> op, in |-> in, pc |-> "begin", tx |-> EmptyDb, row |-> <<>>,
   cols |-> {}, where |-> NoWhere, id |-> NULL, err |-> NoErr,
   fault |-> "none", missing |-> NULL]

Idle == [NewCall("none", NoInput) EXCEPT !.pc = "idle"]

Ret(c, d) == [c |-> c, db |-> d]

(* WithinTX: open a transaction, run the body, commit when it returns no   *)
(* error and roll back when it returns one.                                *)
TxBegin(c, fail, next) ==
  IF fail
  THEN [c EXCEPT !.pc = "done", !.err = FaultErr, !.fault = c.pc]
  ELSE [c EXCEPT !.pc = next]

TxRollback(c, e) ==
  [c EXCEPT !.tx = EmptyDb, !.pc = "done", !.id = NULL, !.err = e]

TxFault(c) == [TxRollback(c, FaultErr) EXCEPT !.fault = c.pc]

TxCommit(d, c, fail, next) ==
  IF fail
  THEN Ret(TxFault(c), d)
  ELSE Ret([c EXCEPT !.tx = EmptyDb, !.pc = next], Visible(d, c.tx))

-----------------------------------------------------------------------------
(* IngestOccurrence, one store call per step.                              *)
(*   in = [pkg, src, art, justification, origin, collector]                *)

\* client.Artifact.Query().Where(artifactQueryInputPredicates(..)).Only(ctx)
(* Mutant of occArtifact: an artifact that is not in the store is created. *)
occArtifact_Create(d, oth, c, fail) ==
  IF fail THEN Ret(TxFault(c), d)
  ELSE LET found == {a \in Visible(d, c.tx)["artifact"] : a.key = c.in.art}
           id == IF found = {} THEN NextID(d, oth, c.tx, "artifact")
                 ELSE (CHOOSE x \in found : TRUE).id
       IN Ret([c EXCEPT
                 !.tx["artifact"] = @ \cup {[id |-> id, key |-> c.in.art]},
                 !.row = [id |-> NULL, artifact_id |-> id,
                          justification |-> c.in.justification,
                          origin |-> c.in.origin,
                          collector |-> c.in.collector,
                          package_id |-> NULL, source_id |-> NULL],
                 !.cols = {"artifact_id", "justification", "origin",
                           "collector"},
                 !.pc = "subject"], d)

occArtifact(d, oth, c, fail) ==
  IF fail THEN Ret(TxFault(c), d)
  ELSE LET found == {a \in Visible(d, c.tx)["artifact"] : a.key = c.in.art}
       IN IF Cardinality(found) # 1
          THEN Ret(TxRollback(c, Err("notfound", "artifact")), d)
          ELSE LET a == CHOOSE x \in found : TRUE
               IN Ret([c EXCEPT
                         !.row = [id |-> NULL, artifact_id |-> a.id,
                                  justification |-> c.in.justification,
                                  origin |-> c.in.origin,
                                  collector |-> c.in.collector,
                                  package_id |-> NULL, source_id |-> NULL],
                         !.cols = {"artifact_id", "justification", "origin",
                                   "collector"},
                         !.pc = "subject"], d)

\* subject.Package != nil: resolve the version, set package_id, scope the key
occWithPackage(d, oth, c) ==
  LET g == getPkgVersion(d, oth, c.tx, c.in.pkg)
  IN [c EXCEPT !.tx = g.tx,
               !.row.package_id = g.id,
               !.cols = @ \cup {"package_id"},
               !.where = [notnull |-> "package_id", isnull |-> "source_id"],
               !.pc = "upsert"]

\* subject.Source != nil: resolve the source, set source_id, scope the key
occWithSource(d, oth, c) ==
  LET g == upsertSource(d, oth, c.tx, c.in.src)
  IN [c EXCEPT !.tx = g.tx,
               !.row.source_id = g.id,
               !.cols = @ \cup {"source_id"},
               !.where = [notnull |-> "source_id", isnull |-> "package_id"],
               !.pc = "upsert"]

(* Mutants of occSubject.                                                  *)
(* BothKeys: two independent ifs instead of if / else if.                  *)
occSubject_BothKeys(d, oth, c, fail) ==
  IF fail /\ (c.in.pkg # NilPkg \/ c.in.src # Nil) THEN Ret(TxFault(c), d)
  ELSE IF c.in.pkg # NilPkg /\ c.in.src # Nil
  THEN Ret(occWithSource(d, oth, occWithPackage(d, oth, c)), d)
  ELSE IF c.in.pkg # NilPkg THEN Ret(occWithPackage(d, oth, c), d)
  ELSE IF c.in.src # Nil THEN Ret(occWithSource(d, oth, c), d)
  ELSE Ret(TxRollback(c, Err("invalid", "subject")), d)

(* Unscoped: the subject key is set but neither appended to the conflict   *)
(* columns nor used in the conflict predicate.                             *)
occSubject_Unscoped(d, oth, c, fail) ==
  IF fail /\ (c.in.pkg # NilPkg \/ c.in.src # Nil) THEN Ret(TxFault(c), d)
  ELSE IF c.in.pkg # NilPkg
  THEN Ret([occWithPackage(d, oth, c) EXCEPT !.cols = c.cols,
                                            !.where = NoWhere], d)
  ELSE IF c.in.src # Nil
  THEN Ret([occWithSource(d, oth, c) EXCEPT !.cols = c.cols,
                                           !.where = NoWhere], d)
  ELSE Ret(TxRollback(c, Err("invalid", "subject")), d)

(* NoTx: the subject is resolved through the backend's client instead of   *)
(* the transaction's, so the nodes it creates are committed at once.       *)
occSubject_NoTx(d, oth, c, fail) ==
  IF fail /\ (c.in.pkg # NilPkg \/ c.in.src # Nil) THEN Ret(TxFault(c), d)
  ELSE IF c.in.pkg # NilPkg
  THEN LET n == occWithPackage(d, oth, c)
       IN Ret([n EXCEPT !.tx = c.tx], Visible(d, n.tx))
  ELSE IF c.in.src # Nil
  THEN LET n == occWithSource(d, oth, c)
       IN Ret([n EXCEPT !.tx = c.tx], Visible(d, n.tx))
  ELSE Ret(TxRollback(c, Err("invalid", "subject")), d)

\* the branch on subject.Package / subject.Source
occSubject(d, oth, c, fail) ==
  IF c.in.pkg # NilPkg
  THEN IF fail THEN Ret(TxFault(c), d) ELSE Ret(occWithPackage(d, oth, c), d)
  ELSE IF c.in.src # Nil
  THEN IF fail THEN Ret(TxFault(c), d) ELSE Ret(occWithSource(d, oth, c), d)
  ELSE Ret(TxRollback(c, Err("invalid", "subject")), d)

\* occurrenceCreate.OnConflict(..).UpdateNewValues().ID(ctx)
occUpsert(d, oth, c, fail) ==
  IF fail THEN Ret(TxFault(c), d)
  ELSE LET u == Upsert(d, oth, c.tx, "occurrence", c.row, c.cols, c.where,
                       "UpdateNewValues")
       IN Ret([c EXCEPT !.tx = u.tx, !.id = u.id, !.pc = "commit"], d)

\* b.client.Occurrence.Query().Where(occurrence.ID(*recordID))...Only(ctx)
occReread(d, oth, c, fail) ==
  IF fail
  THEN Ret([c EXCEPT !.pc = "done", !.id = NULL, !.err = FaultErr,
                     !.fault = c.pc], d)
  ELSE LET found == {r \in d["occurrence"] : r.id = c.id}
       IN IF Cardinality(found) # 1
          THEN Ret([c EXCEPT !.pc = "done", !.id = NULL,
                             !.err = Err("notfound", "occurrence")], d)
          ELSE Ret([c EXCEPT !.pc = "done"], d)

IngestOccurrenceStep(d, oth, c, fail) ==
  CASE c.pc = "begin"    -> Ret(TxBegin(c, fail, "artifact"), d)
    [] c.pc = "artifact" -> occArtifact(d, oth, c, fail)
    [] c.pc = "subject"  -> occSubject(d, oth, c, fail)
    [] c.pc = "upsert"   -> occUpsert(d, oth, c, fail)
    [] c.pc = "commit"   -> TxCommit(d, c, fail, "reread")
    [] c.pc = "reread"   -> occReread(d, oth, c, fail)

IngestOccurrenceBlocked(d, oth, c) ==
  \/ /\ c.pc = "subject"
     /\ \/ c.in.pkg # NilPkg /\ BlockedPkgVersion(d, oth, c.tx, c.in.pkg)
        \/ c.in.pkg = NilPkg /\ c.in.src # Nil /\ BlockedSource(oth, c.in.src)
  \/ c.pc = "upsert" /\ Blocked(oth, "occurrence", c.row, c.cols, c.where)

-----------------------------------------------------------------------------
(* IngestDependency.                                                       *)
(*   in = [pkg, depPkg, matchType, version_range, dependency_type,         *)
(*         justification, origin, collector]                               *)

dependencyTypeToEnum(t) ==
  CASE t = "DIRECT" -> "DIRECT"
    [] t = "INDIRECT" -> "INDIRECT"
    [] OTHER -> "UNKNOWN"

\* getPkgVersion for the depending package, then the create builder
depPackage(d, oth, c, fail) ==
  IF fail THEN Ret(TxFault(c), d)
  ELSE LET g == getPkgVersion(d, oth, c.tx, c.in.pkg)
       IN Ret([c EXCEPT
                 !.tx = g.tx,
                 !.row = [id |-> NULL, package_id |-> g.id,
                          version_range |-> c.in.version_range,
                          dependency_type |->
                            dependencyTypeToEnum(c.in.dependency_type),
                          justification |-> c.in.justification,
                          origin |-> c.in.origin,
                          collector |-> c.in.collector,
                          dependent_package_name_id |-> NULL,
                          dependent_package_version_id |-> NULL],
                 !.cols = {"package_id", "version_range", "dependency_type",
                           "justification", "origin", "collector"},
                 !.pc = "dependent"], d)

(* Mutant of depDependent: the dependent key is set but neither appended   *)
(* to the conflict columns nor used in the conflict predicate.             *)
depDependent_Unscoped(d, oth, c, fail) ==
  IF fail THEN Ret(TxFault(c), d)
  ELSE IF c.in.matchType = "ALL_VERSIONS"
  THEN LET g == getPkgName(d, oth, c.tx, c.in.depPkg)
       IN Ret([c EXCEPT !.tx = g.tx,
                        !.row.dependent_package_name_id = g.id,
                        !.pc = "upsert"], d)
  ELSE LET g == getPkgVersion(d, oth, c.tx, c.in.depPkg)
       IN Ret([c EXCEPT !.tx = g.tx,
                        !.row.dependent_package_version_id = g.id,
                        !.pc = "upsert"], d)

\* the branch on depPkgMatchType.Pkg
depDependent(d, oth, c, fail) ==
  IF fail THEN Ret(TxFault(c), d)
  ELSE IF c.in.matchType = "ALL_VERSIONS"
  THEN LET g == getPkgName(d, oth, c.tx, c.in.depPkg)
       IN Ret([c EXCEPT !.tx = g.tx,
                        !.row.dependent_package_name_id = g.id,
                        !.cols = @ \cup {"dependent_package_name_id"},
                        !.where = [notnull |-> "dependent_package_name_id",
                                   isnull |-> "dependent_package_version_id"],
                        !.pc = "upsert"], d)
  ELSE LET g == getPkgVersion(d, oth, c.tx, c.in.depPkg)
       IN Ret([c EXCEPT !.tx = g.tx,
                        !.row.dependent_package_version_id = g.id,
                        !.cols = @ \cup {"dependent_package_version_id"},
                        !.where = [notnull |-> "dependent_package_version_id",
                                   isnull |-> "dependent_package_name_id"],
                        !.pc = "upsert"], d)

\* query.OnConflict(..).Ignore().ID(ctx)
depUpsert(d, oth, c, fail) ==
  IF fail THEN Ret(TxFault(c), d)
  ELSE LET u == Upsert(d, oth, c.tx, "dependency", c.row, c.cols, c.where,
                       "Ignore")
       IN Ret([c EXCEPT !.tx = u.tx, !.id = u.id, !.pc = "commit"], d)

IngestDependencyStep(d, oth, c, fail) ==
  CASE c.pc = "begin"     -> Ret(TxBegin(c, fail, "package"), d)
    [] c.pc = "package"   -> depPackage(d, oth, c, fail)
    [] c.pc = "dependent" -> depDependent(d, oth, c, fail)
    [] c.pc = "upsert"    -> depUpsert(d, oth, c, fail)
    [] c.pc = "commit"    -> TxCommit(d, c, fail, "done")

IngestDependencyBlocked(d, oth, c) ==
  \/ c.pc = "package" /\ BlockedPkgVersion(d, oth, c.tx, c.in.pkg)
  \/ /\ c.pc = "dependent"
     /\ IF c.in.matchType = "ALL_VERSIONS"
        THEN BlockedPkgName(oth, c.in.depPkg)
        ELSE BlockedPkgVersion(d, oth, c.tx, c.in.depPkg)
  \/ c.pc = "upsert" /\ Blocked(oth, "dependency", c.row, c.cols, c.where)

-----------------------------------------------------------------------------
(* IngestHasSbom.                                                          *)
(*   in = [pkg, art, uri, algorithm, digest, download_location, origin,    *)
(*         collector, known_since, inc]                                    *)
(*   inc = [Packages, Artifacts, Dependencies, Occurrences], each a list   *)
(*   of identifiers                                                        *)

\* time.Time.UTC(): the same instant, in the UTC location
UTC(t) == [t EXCEPT !.zone = "UTC"]

Min(S) == CHOOSE x \in S : \A y \in S : x <= y

RECURSIVE SortedSeq(_)
SortedSeq(S) == IF S = {} THEN <<>>
                ELSE <<Min(S)>> \o SortedSeq(S \ {Min(S)})

\* helper.SortAndRemoveDups: ascending, each identifier once
SortAndRemoveDups(ids) == SortedSeq({ids[i] : i \in 1..Len(ids)})

(* One include loop: look each identifier up in order and stop at the      *)
(* first that has no row.  missing: that identifier, NULL when all exist.  *)
IncludeLoop(rows, ids) ==
  LET bad == {i \in 1..Len(ids) : ids[i] \notin Ids(rows)}
  IN IF bad = {}
     THEN [missing |-> NULL, found |-> {ids[i] : i \in 1..Len(ids)}]
     ELSE [missing |-> ids[Min(bad)], found |-> {}]

\* the branch on subject.Package / subject.Artifact
sbomSubject(d, oth, c, fail) ==
  LET create == [id |-> NULL, uri |-> c.in.uri,
                 algorithm |-> ToLower(c.in.algorithm),
                 digest |-> ToLower(c.in.digest),
                 download_location |-> c.in.download_location,
                 origin |-> c.in.origin, collector |-> c.in.collector,
                 known_since |-> UTC(c.in.known_since),
                 package_id |-> NULL, artifact_id |-> NULL,
                 included_software_packages |-> {},
                 included_software_artifacts |-> {},
                 included_dependencies |-> {},
                 included_occurrences |-> {}]
      columns == {"uri", "algorithm", "digest", "download_location",
                  "known_since"}
  IN IF c.in.pkg # NilPkg
     THEN IF fail THEN Ret(TxFault(c), d)
          ELSE LET g == getPkgVersion(d, oth, c.tx, c.in.pkg)
               IN Ret([c EXCEPT !.tx = g.tx,
                                !.row = [create EXCEPT !.package_id = g.id],
                                !.cols = columns \cup {"package_id"},
                                !.where = [notnull |-> "package_id",
                                           isnull |-> "artifact_id"],
                                !.pc = "incPkgs"], d)
     ELSE IF c.in.art # Nil
     THEN IF fail THEN Ret(TxFault(c), d)
          ELSE LET found == {a \in Visible(d, c.tx)["artifact"] :
                               a.key = c.in.art}
               IN IF Cardinality(found) # 1
                  THEN Ret(TxRollback(c, Err("notfound", "artifact")), d)
                  ELSE LET a == CHOOSE x \in found : TRUE
                       IN Ret([c EXCEPT
                                 !.row = [create EXCEPT !.artifact_id = a.id],
                                 !.cols = columns \cup {"artifact_id"},
                                 !.where = [notnull |-> "artifact_id",
                                            isnull |-> "package_id"],
                                 !.pc = "incPkgs"], d)
     ELSE Ret(TxRollback(c, Err("invalid", "subject")), d)

(* Mutant of sbomInclude: a row is created for an identifier that resolves *)
(* to none.                                                                *)
sbomInclude_Create(d, oth, c, fail, list, table, field, errset, next) ==
  LET ids == SortAndRemoveDups(c.in.inc[list])
      all == {ids[i] : i \in 1..Len(ids)}
      new == {[id |-> x] : x \in all \ Ids(Visible(d, c.tx)[table])}
  IN IF fail /\ ids # <<>>
     THEN Ret([TxRollback(c, Err("lookup", errset)) EXCEPT !.fault = c.pc], d)
     ELSE Ret([c EXCEPT !.tx[table] = @ \cup new,
                        !.row[field] = @ \cup all, !.pc = next], d)

(* Mutant of sbomInclude: an identifier that resolves to no row is skipped *)
(* instead of failing the call.                                            *)
sbomInclude_Skip(d, oth, c, fail, list, table, field, errset, next) ==
  LET ids == SortAndRemoveDups(c.in.inc[list])
      have == {ids[i] : i \in 1..Len(ids)} \cap Ids(Visible(d, c.tx)[table])
  IN IF fail /\ ids # <<>>
     THEN Ret([TxRollback(c, Err("lookup", errset)) EXCEPT !.fault = c.pc], d)
     ELSE Ret([c EXCEPT !.row[field] = @ \cup have, !.pc = next], d)

(* Mutant of sbomInclude: the list is used as given, and linking an        *)
(* identifier a second time violates the key of the link table.            *)
sbomInclude_Raw(d, oth, c, fail, list, table, field, errset, next) ==
  LET ids == c.in.inc[list]
      l == IncludeLoop(Visible(d, c.tx)[table], ids)
  IN IF fail /\ ids # <<>>
     THEN Ret([TxRollback(c, Err("lookup", errset)) EXCEPT !.fault = c.pc], d)
     ELSE IF l.missing # NULL
     THEN Ret([TxRollback(c, Err("lookup", errset))
                  EXCEPT !.missing = l.missing], d)
     ELSE IF Cardinality(l.found) # Len(ids)
     THEN Ret(TxRollback(c, Err("constraint", errset)), d)
     ELSE Ret([c EXCEPT !.row[field] = @ \cup l.found, !.pc = next], d)

(* The four include loops.  Each error message is a fixed text naming the  *)
(* set; none carries the identifier that was looked up.                    *)
sbomInclude(d, oth, c, fail, list, table, field, errset, next) ==
  LET ids == SortAndRemoveDups(c.in.inc[list])
      l == IncludeLoop(Visible(d, c.tx)[table], ids)
  IN IF fail /\ ids # <<>>
     THEN Ret([TxRollback(c, Err("lookup", errset)) EXCEPT !.fault = c.pc], d)
     ELSE IF l.missing # NULL
     THEN Ret([TxRollback(c, Err("lookup", errset))
                  EXCEPT !.missing = l.missing], d)
     ELSE Ret([c EXCEPT !.row[field] = @ \cup l.found, !.pc = next], d)

sbomIncPkgs(d, oth, c, fail) ==
  sbomInclude(d, oth, c, fail, "Packages", "pkgVersion",
              "included_software_packages", "PackageVersion", "incArts")

sbomIncArts(d, oth, c, fail) ==
  sbomInclude(d, oth, c, fail, "Artifacts", "artifact",
              "included_software_artifacts", "artifact", "incDeps")

sbomIncDeps(d, oth, c, fail) ==
  sbomInclude(d, oth, c, fail, "Dependencies", "dependency",
              "included_dependencies", "includes.Dependencies", "incOccs")

sbomIncOccs(d, oth, c, fail) ==
  sbomInclude(d, oth, c, fail, "Occurrences", "occurrence",
              "included_occurrences", "includes.Occurrences", "upsert")

\* sbomCreate.OnConflict(..).DoNothing().ID(ctx)
sbomUpsert(d, oth, c, fail) ==
  IF fail THEN Ret(TxFault(c), d)
  ELSE LET u == Upsert(d, oth, c.tx, "sbom", c.row, c.cols, c.where,
                       "DoNothing")
       IN IF u.norows
          THEN Ret([c EXCEPT !.pc = "fallback"], d)
          ELSE Ret([c EXCEPT !.tx = u.tx, !.id = u.id, !.pc = "commit"], d)

\* client.BillOfMaterials.Query().Where(billofmaterials.URIEQ(spec.URI)).OnlyID(ctx)
sbomFallback(d, oth, c, fail) ==
  IF fail THEN Ret(TxFault(c), d)
  ELSE LET found == {r \in Visible(d, c.tx)["sbom"] : r.uri = c.in.uri}
       IN IF found = {}
          THEN Ret(TxRollback(c, Err("notfound", "bill_of_materials")), d)
          ELSE IF Cardinality(found) > 1
          THEN Ret(TxRollback(c, Err("notsingular", "bill_of_materials")), d)
          ELSE Ret([c EXCEPT !.id = (CHOOSE r \in found : TRUE).id,
                             !.pc = "commit"], d)

IngestHasSbomStep(d, oth, c, fail) ==
  CASE c.pc = "begin"    -> Ret(TxBegin(c, fail, "subject"), d)
    [] c.pc = "subject"  -> sbomSubject(d, oth, c, fail)
    [] c.pc = "incPkgs"  -> sbomIncPkgs(d, oth, c, fail)
    [] c.pc = "incArts"  -> sbomIncArts(d, oth, c, fail)
    [] c.pc = "incDeps"  -> sbomIncDeps(d, oth, c, fail)
    [] c.pc = "incOccs"  -> sbomIncOccs(d, oth, c, fail)
    [] c.pc = "upsert"   -> sbomUpsert(d, oth, c, fail)
    [] c.pc = "fallback" -> sbomFallback(d, oth, c, fail)
    [] c.pc = "commit"   -> TxCommit(d, c, fail, "done")

IngestHasSbomBlocked(d, oth, c) ==
  \/ c.pc = "subject" /\ c.in.pkg # NilPkg
       /\ BlockedPkgVersion(d, oth, c.tx, c.in.pkg)
  \/ c.pc = "upsert" /\ Blocked(oth, "sbom", c.row, c.cols, c.where)

-----------------------------------------------------------------------------
(* One step of any call, and a call run to its end with no other           *)
(* transaction open.  faultAt: the pc whose store call fails ("none": no   *)
(* store call fails).                                                      *)

Step(d, oth, c, fail) ==
  CASE c.op = "IngestOccurrence" -> IngestOccurrenceStep(d, oth, c, fail)
    [] c.op = "IngestDependency" -> IngestDependencyStep(d, oth, c, fail)
    [] c.op = "IngestHasSbom"    -> IngestHasSbomStep(d, oth, c, fail)

IsBlocked(d, oth, c) ==
  CASE c.op = "IngestOccurrence" -> IngestOccurrenceBlocked(d, oth, c)
    [] c.op = "IngestDependency" -> IngestDependencyBlocked(d, oth, c)
    [] c.op = "IngestHasSbom"    -> IngestHasSbomBlocked(d, oth, c)

RECURSIVE Run(_, _, _)
Run(d, c, faultAt) ==
  IF c.pc = "done" THEN Ret(c, d)
  ELSE LET r == Step(d, EmptyDb, c, c.pc = faultAt)
       IN Run(r.db, r.c, faultAt)

(* The step of c at its pc issues a call to the store.  The branch taken   *)
(* by a subject with no variant and a loop over an empty include list      *)
(* issue none; every other step is one call (begin the transaction, look   *)
(* up, resolve, insert, commit, re-read).                                  *)
MakesStoreCall(c) ==
  CASE c.pc = "subject" /\ c.op = "IngestOccurrence" ->
         c.in.pkg # NilPkg \/ c.in.src # Nil
    [] c.pc = "subject" /\ c.op = "IngestHasSbom" ->
         c.in.pkg # NilPkg \/ c.in.art # Nil
    [] c.pc = "incPkgs" -> c.in.inc.Packages # <<>>
    [] c.pc = "incArts" -> c.in.inc.Artifacts # <<>>
    [] c.pc = "incDeps" -> c.in.inc.Dependencies # <<>>
    [] c.pc = "incOccs" -> c.in.inc.Occurrences # <<>>
    [] OTHER -> TRUE

\* the store calls a call run alone issues, in order, up to its return
RECURSIVE StoreCalls(_, _, _)
StoreCalls(d, c, faultAt) ==
  IF c.pc = "done" THEN <<>>
  ELSE LET r == Step(d, EmptyDb, c, c.pc = faultAt)
       IN (IF MakesStoreCall(c) THEN <<c.pc>> ELSE <<>>)
          \o StoreCalls(r.db, r.c, faultAt)

-----------------------------------------------------------------------------
(* Inputs *)

P1 == [name |-> "n1", version |-> "v1"]
KnownSince == [instant |-> 1, zone |-> "CET"]
EmptyInc == [Packages |-> <<>>, Artifacts |-> <<>>, Dependencies |-> <<>>,
             Occurrences |-> <<>>]

OccInputs ==
  [pkg : {NilPkg, P1}, src : {Nil} \cup Srcs, art : ArtKeys,
   justification : Justifications, origin : {"o1"}, collector : Collectors]

DepInputs ==
  [pkg : {P1}, depPkg : Pkgs, matchType : {"ALL_VERSIONS", "SPECIFIC_VERSION"},
   version_range : {"r1"}, dependency_type : {"DIRECT"},
   justification : Justifications, origin : {"o1"}, collector : Collectors]

SbomInput(pkg, art, digest, origin, inc) ==
  [pkg |-> pkg, art |-> art, uri |-> "u1", algorithm |-> "sha256",
   digest |-> digest, download_location |-> "l1", origin |-> origin,
   collector |-> "c1", known_since |-> KnownSince, inc |-> inc]

(* Every subject shape with one set of attributes, every digest and origin *)
(* with a package subject, and one input with a non-empty include list.    *)
SbomInputs ==
  {SbomInput(p, a, "d1", "o1", EmptyInc) : p \in {NilPkg, P1}, a \in {Nil, "a1"}}
  \cup {SbomInput(P1, Nil, dg, o, EmptyInc) : dg \in Digests, o \in Origins}
  \cup {SbomInput(P1, Nil, "d1", "o1", [EmptyInc EXCEPT !.Artifacts = <<1>>])}

OccPcs == {"begin", "artifact", "subject", "upsert", "commit", "reread"}
DepPcs == {"begin", "package", "dependent", "upsert", "commit"}

\* The pcs of an SBOM ingestion that make a store call: a loop over an
\* empty include list makes none.
SbomFaultPcs(in) ==
  {"begin", "subject", "upsert", "fallback", "commit"}
  \cup (IF in.inc.Packages # <<>> THEN {"incPkgs"} ELSE {})
  \cup (IF in.inc.Artifacts # <<>> THEN {"incArts"} ELSE {})
  \cup (IF in.inc.Dependencies # <<>> THEN {"incDeps"} ELSE {})
  \cup (IF in.inc.Occurrences # <<>> THEN {"incOccs"} ELSE {})

-----------------------------------------------------------------------------
(* Spec: single calls, one after the other.                                *)

NoCall == [op |-> "none", in |-> NoInput, id |-> NULL, err |-> NoErr,
           fault |-> "none", missing |-> NULL, repeat |-> FALSE,
           prevId |-> NULL, calls |-> <<>>]

NoBatch == [pc |-> "idle"]

Writers == 1..NumWriters

(* The stores a behaviour of Spec starts from: the store with its first   *)
(* artifact, and that store after one SBOM of package P1 was ingested.     *)
SeedSbom ==
  Run(InitDb, NewCall("IngestHasSbom", SbomInput(P1, Nil, "d1", "o1", EmptyInc)),
      "none").db

Init ==
  /\ db \in {InitDb, SeedSbom}
  /\ pre = db
  /\ last = NoCall
  /\ ncalls = 0
  /\ wr = [w \in Writers |-> Idle]
  /\ batch = NoBatch

(* A call from entry to return.  repeat: the call before it was the same   *)
(* operation on the same input and returned no error; prevId: what that    *)
(* call returned; calls: the store calls it issued.                        *)
Call(op, in, faultAt) ==
  /\ LET r == Run(db, NewCall(op, in), faultAt)
         rep == last.op = op /\ last.in = in /\ last.err = NoErr
     IN /\ db' = r.db
        /\ last' = [op |-> op, in |-> in, id |-> r.c.id, err |-> r.c.err,
                    fault |-> r.c.fault, missing |-> r.c.missing,
                    repeat |-> rep,
                    prevId |-> IF rep THEN last.id ELSE NULL,
                    calls |-> StoreCalls(db, NewCall(op, in), faultAt)]
  /\ pre' = db
  /\ ncalls' = ncalls + 1
  /\ UNCHANGED <<wr, batch>>

IngestOccurrence(in, faultAt) == Call("IngestOccurrence", in, faultAt)

IngestDependency(in, faultAt) == Call("IngestDependency", in, faultAt)

IngestHasSbom(in, faultAt) == Call("IngestHasSbom", in, faultAt)

Next ==
  /\ ncalls < MaxCalls
  /\ \/ \E in \in OccInputs, f \in OccPcs \cup {"none"} :
          IngestOccurrence(in, f)
     \/ \E in \in DepInputs, f \in DepPcs \cup {"none"} :
          IngestDependency(in, f)
     \/ \E in \in SbomInputs :
          \E f \in SbomFaultPcs(in) \cup {"none"} : IngestHasSbom(in, f)

Spec == Init /\ [][Next]_vars

-----------------------------------------------------------------------------
(* SpecSbom: SBOM ingestion with include lists, over a store that holds    *)
(* package versions 1 and 2, artifact 1, occurrence 1 and dependency 1.    *)

P2 == [name |-> "n1", version |-> "v2"]

SeedRelations ==
  LET o == Run(InitDb,
               NewCall("IngestOccurrence",
                       [pkg |-> P1, src |-> Nil, art |-> "a1",
                        justification |-> "j1", origin |-> "o1",
                        collector |-> "c1"]), "none").db
  IN Run(o, NewCall("IngestDependency",
                    [pkg |-> P1, depPkg |-> P2,
                     matchType |-> "SPECIFIC_VERSION", version_range |-> "r1",
                     dependency_type |-> "DIRECT", justification |-> "j1",
                     origin |-> "o1", collector |-> "c1"]), "none").db

Inc(p, a, dp, o) ==
  [Packages |-> p, Artifacts |-> a, Dependencies |-> dp, Occurrences |-> o]

(* Each list alone (in order, out of order, repeated, with an identifier   *)
(* that has no row), two lists that both hold one, and all four valid.     *)
IncDomain ==
  {EmptyInc}
  \cup {Inc(l, <<>>, <<>>, <<>>) : l \in {<<2, 1>>, <<1, 1>>, <<3, 1>>}}
  \cup {Inc(<<>>, l, <<>>, <<>>) : l \in {<<1>>, <<2>>}}
  \cup {Inc(<<>>, <<>>, l, <<>>) : l \in {<<1>>, <<3, 2>>}}
  \cup {Inc(<<>>, <<>>, <<>>, l) : l \in {<<1, 1>>, <<2>>}}
  \cup {Inc(<<3, 1>>, <<2>>, <<>>, <<>>), Inc(<<>>, <<1, 2>>, <<3, 2>>, <<>>),
        Inc(<<>>, <<>>, <<1, 2>>, <<2>>), Inc(<<2, 1>>, <<1>>, <<1>>, <<1>>),
        Inc(<<1, 2>>, <<1>>, <<1>>, <<1>>)}

SbomIncInputs ==
  {SbomInput(P1, Nil, "d1", "o1", inc) : inc \in IncDomain}

InitSbom ==
  /\ db \in {SeedRelations, InitDb}
  /\ pre = db
  /\ last = NoCall
  /\ ncalls = 0
  /\ wr = [w \in Writers |-> Idle]
  /\ batch = NoBatch

NextSbom ==
  /\ ncalls < MaxSbomCalls
  /\ \E in \in SbomIncInputs :
       \E f \in SbomFaultPcs(in) \cup {"none"} : IngestHasSbom(in, f)

SpecSbom == InitSbom /\ [][NextSbom]_vars

-----------------------------------------------------------------------------
(* SpecConc: NumWriters writers, each making one call in a transaction of  *)
(* its own, their store calls interleaved in every order.                  *)

OccInput(pkg, src, art) ==
  [pkg |-> pkg, src |-> src, art |-> art, justification |-> "j1",
   origin |-> "o1", collector |-> "c1"]

DepInput(pkg, depPkg, matchType) ==
  [pkg |-> pkg, depPkg |-> depPkg, matchType |-> matchType,
   version_range |-> "r1", dependency_type |-> "DIRECT",
   justification |-> "j1", origin |-> "o1", collector |-> "c1"]

ConcCalls ==
  {NewCall("IngestOccurrence", OccInput(P1, Nil, "a1")),
   NewCall("IngestOccurrence", OccInput(NilPkg, "s1", "a1")),
   NewCall("IngestDependency", DepInput(P1, P2, "ALL_VERSIONS")),
   NewCall("IngestDependency", DepInput(P1, P2, "SPECIFIC_VERSION")),
   NewCall("IngestHasSbom", SbomInput(P1, Nil, "d1", "o1", EmptyInc)),
   NewCall("IngestHasSbom", SbomInput(P1, Nil, "d2", "o1", EmptyInc))}

InitConc ==
  /\ db = InitDb
  /\ pre = db
  /\ last = NoCall
  /\ ncalls = 0
  /\ wr \in [Writers -> ConcCalls]
  /\ batch = NoBatch

\* the uncommitted rows of the transactions of the writers other than w
Others(w) ==
  [t \in Tables |-> UNION {wr[v].tx[t] : v \in DOMAIN wr \ {w}}]

Running(w) == wr[w].pc \notin {"idle", "done"}

\* the next store call of writer w returns
WriterStep(w) ==
  /\ Running(w)
  /\ ~IsBlocked(db, Others(w), wr[w])
  /\ LET r == Step(db, Others(w), wr[w], FALSE)
     IN /\ wr' = [wr EXCEPT ![w] = r.c]
        /\ db' = r.db
  /\ UNCHANGED <<pre, last, ncalls, batch>>

\* the next store call of writer w fails (store error, cancelled context)
WriterFault(w) ==
  /\ Running(w)
  /\ LET r == Step(db, Others(w), wr[w], TRUE)
     IN /\ r.c.fault # "none"
        /\ wr' = [wr EXCEPT ![w] = r.c]
        /\ db' = r.db
  /\ UNCHANGED <<pre, last, ncalls, batch>>

NextConc == \E w \in Writers : WriterStep(w) \/ WriterFault(w)

SpecConc == InitConc /\ [][NextConc]_vars

-----------------------------------------------------------------------------
(* SpecBatch: one batch call.  IngestOccurrences and IngestDependencies    *)
(* start one unit of work per relation in an errgroup and wait for them;   *)
(* IngestHasSBOMs ingests its relations one after the other.               *)
(*   batch.in: the parallel input arrays; batch.i: the loop index;         *)
(*   batch.models: the result slice; batch.err: the first error a unit     *)
(*   returned; batch.cancelled: the errgroup's context is cancelled;       *)
(*   batch.order: the units in the order they returned; batch.ids: what    *)
(*   the ingestion of each unit returned; batch.out: what the call returned*)

Rep(x, k) == [i \in 1..k |-> x]

OriginOf == <<"o1", "o2", "o3", "o4">>
DigestOf == <<"d1", "d2", "d3", "d4">>

\* the lengths of the two subject arrays: the second is read only when the
\* first is empty
SubjectLens ==
  {<<k, 0>> : k \in 1..MaxBatch} \cup {<<0, k>> : k \in 0..MaxBatch}

\* arrays of length k: every element x, or the last one y
LastOther(x, y, k) ==
  {Rep(x, k)} \cup (IF k > 0 THEN {[i \in 1..k |-> IF i = k THEN y ELSE x]}
                    ELSE {})

\* arrays of length k: every element x, or x and y in turn
InTurn(x, y, k) ==
  {Rep(x, k)} \cup (IF k > 0 THEN {[i \in 1..k |-> IF i % 2 = 1 THEN x ELSE y]}
                    ELSE {})

OccBatchInputs ==
  {[Packages |-> Rep(P1, l[1]), Sources |-> Rep("s1", l[2]), artifacts |-> a,
    occurrences |-> [i \in 1..n |-> [justification |-> "j1",
                                      origin |-> OriginOf[i],
                                      collector |-> "c1"]]] :
     l \in SubjectLens,
     a \in UNION {LastOther("a1", "a2", k) : k \in 0..MaxBatch},
     n \in 0..MaxBatch}

DepBatchInputs ==
  {[pkgs |-> Rep(P1, k), depPkgs |-> dp, matchType |-> m,
    dependencies |-> Rep([version_range |-> "r1", dependency_type |-> "DIRECT",
                          justification |-> "j1", origin |-> "o1",
                          collector |-> "c1"], n)] :
     k \in 0..MaxBatch,
     dp \in UNION {InTurn(P2, P1, j) : j \in 0..MaxBatch},
     m \in {"ALL_VERSIONS", "SPECIFIC_VERSION"},
     n \in 0..MaxBatch}

BadInc == [EmptyInc EXCEPT !.Dependencies = <<1>>]

SbomBatchInputs ==
  {[Artifacts |-> Rep("a1", l[1]), Packages |-> Rep(P1, l[2]), includes |-> inc,
    hasSBOMs |-> [i \in 1..n |-> [uri |-> "u1", algorithm |-> "sha256",
                                   digest |-> DigestOf[i],
                                   download_location |-> "l1",
                                   origin |-> "o1", collector |-> "c1",
                                   known_since |-> KnownSince]]] :
     l \in SubjectLens,
     inc \in UNION {LastOther(EmptyInc, BadInc, k) : k \in 0..MaxBatch},
     n \in 0..MaxBatch}

NilList == <<"nil">>     \* the nil slice
NoOut == [list |-> NilList, err |-> NoErr]

NewBatch(kind, in, n) ==
  [kind |-> kind, in |-> in, n |-> n, pc |-> "loop", i |-> 1,
   models |-> IF kind = "IngestHasSBOMs" THEN <<>> ELSE Rep(NULL, n),
   err |-> NoErr, cancelled |-> FALSE, order |-> <<>>,
   ids |-> Rep(NULL, n), out |-> NoOut]

Units == 1..MaxBatch

InitBatch ==
  /\ db = InitDb
  /\ pre = db
  /\ last = NoCall
  /\ ncalls = 0
  /\ wr = [u \in Units |-> Idle]
  /\ \/ \E in \in OccBatchInputs :
          batch = NewBatch("IngestOccurrences", in, Len(in.occurrences))
     \/ \E in \in DepBatchInputs :
          batch = NewBatch("IngestDependencies", in, Len(in.dependencies))
     \/ \E in \in SbomBatchInputs :
          batch = NewBatch("IngestHasSBOMs", in, Len(in.hasSBOMs))

\* the index expressions of iteration i are all in range
InRange(b, i) ==
  CASE b.kind = "IngestOccurrences" ->
         /\ IF Len(b.in.Packages) > 0 THEN i <= Len(b.in.Packages)
                                      ELSE i <= Len(b.in.Sources)
         /\ i <= Len(b.in.artifacts)
    [] b.kind = "IngestDependencies" ->
         i <= Len(b.in.pkgs) /\ i <= Len(b.in.depPkgs)
    [] b.kind = "IngestHasSBOMs" ->
         /\ IF Len(b.in.Artifacts) > 0 THEN i <= Len(b.in.Artifacts)
                                       ELSE i <= Len(b.in.Packages)
         /\ i <= Len(b.in.includes)

\* the single ingestion iteration i calls
UnitCall(b, i) ==
  CASE b.kind = "IngestOccurrences" ->
         NewCall("IngestOccurrence",
                 [pkg |-> IF Len(b.in.Packages) > 0 THEN b.in.Packages[i]
                                                    ELSE NilPkg,
                  src |-> IF Len(b.in.Packages) > 0 THEN Nil
                                                    ELSE b.in.Sources[i],
                  art |-> b.in.artifacts[i],
                  justification |-> b.in.occurrences[i].justification,
                  origin |-> b.in.occurrences[i].origin,
                  collector |-> b.in.occurrences[i].collector])
    [] b.kind = "IngestDependencies" ->
         NewCall("IngestDependency",
                 [pkg |-> b.in.pkgs[i], depPkg |-> b.in.depPkgs[i],
                  matchType |-> b.in.matchType,
                  version_range |-> b.in.dependencies[i].version_range,
                  dependency_type |-> b.in.dependencies[i].dependency_type,
                  justification |-> b.in.dependencies[i].justification,
                  origin |-> b.in.dependencies[i].origin,
                  collector |-> b.in.dependencies[i].collector])
    [] b.kind = "IngestHasSBOMs" ->
         NewCall("IngestHasSbom",
                 [pkg |-> IF Len(b.in.Artifacts) > 0 THEN NilPkg
                                                     ELSE b.in.Packages[i],
                  art |-> IF Len(b.in.Artifacts) > 0 THEN b.in.Artifacts[i]
                                                     ELSE Nil,
                  uri |-> b.in.hasSBOMs[i].uri,
                  algorithm |-> b.in.hasSBOMs[i].algorithm,
                  digest |-> b.in.hasSBOMs[i].digest,
                  download_location |-> b.in.hasSBOMs[i].download_location,
                  origin |-> b.in.hasSBOMs[i].origin,
                  collector |-> b.in.hasSBOMs[i].collector,
                  known_since |-> b.in.hasSBOMs[i].known_since,
                  inc |-> b.in.includes[i]])

Sequential(b) == b.kind = "IngestHasSBOMs"

UnitsReturned(b) == \A u \in 1..(b.i - 1) : wr[u].pc = "returned"

(* One iteration of the loop: an index out of range panics; otherwise the  *)
(* unit is started (IngestHasSBOMs: called, the loop going on when it has  *)
(* returned).                                                              *)
Dispatch ==
  /\ batch.pc = "loop"
  /\ batch.i <= batch.n
  /\ Sequential(batch) => UnitsReturned(batch)
  /\ IF InRange(batch, batch.i)
     THEN /\ wr' = [wr EXCEPT ![batch.i] = UnitCall(batch, batch.i)]
          /\ batch' = [batch EXCEPT !.i = @ + 1]
     ELSE /\ wr' = wr
          /\ batch' = [batch EXCEPT !.pc = "panicked"]
  /\ UNCHANGED <<db, pre, last, ncalls>>

Spawned(u) == wr[u].pc \notin {"idle", "done", "returned"}

(* Mutant of UnitStep: the units are given the caller's context instead of *)
(* the errgroup's, so their store calls go on after a unit has failed.     *)
UnitStep_ParentCtx(u) ==
  /\ Spawned(u)
  /\ ~IsBlocked(db, Others(u), wr[u])
  /\ LET r == Step(db, Others(u), wr[u], FALSE)
     IN /\ wr' = [wr EXCEPT ![u] = r.c]
        /\ db' = r.db
  /\ UNCHANGED <<pre, last, ncalls, batch>>

\* the next store call of unit u returns; none does once the context is
\* cancelled
UnitStep(u) ==
  /\ Spawned(u)
  /\ ~batch.cancelled
  /\ ~IsBlocked(db, Others(u), wr[u])
  /\ LET r == Step(db, Others(u), wr[u], FALSE)
     IN /\ wr' = [wr EXCEPT ![u] = r.c]
        /\ db' = r.db
  /\ UNCHANGED <<pre, last, ncalls, batch>>

\* the next store call of unit u fails
UnitFault(u) ==
  /\ Spawned(u)
  /\ LET r == Step(db, Others(u), wr[u], TRUE)
     IN /\ r.c.fault # "none"
        /\ wr' = [wr EXCEPT ![u] = r.c]
        /\ db' = r.db
  /\ UNCHANGED <<pre, last, ncalls, batch>>

(* Mutant of closureStore: the result is appended in completion order.     *)
closureStore_Append(b, index, id) ==
  [b EXCEPT !.models[Len(b.order) + 1] = id]

\* models[index] = modelOccurrence
closureStore(b, index, id) == [b EXCEPT !.models[index] = id]

(* The closure of unit u returns: the result is stored when there is no    *)
(* error; the errgroup keeps the first error and cancels its context.      *)
(* IngestHasSBOMs: the loop returns the error or appends the result.       *)
UnitReturn(u) ==
  /\ wr[u].pc = "done"
  /\ wr' = [wr EXCEPT ![u] = [Idle EXCEPT !.pc = "returned",
                                          !.id = wr[u].id,
                                          !.err = wr[u].err]]
  /\ LET b == [batch EXCEPT !.order = Append(@, u), !.ids[u] = wr[u].id]
     IN IF Sequential(batch)
        THEN batch' = IF wr[u].err # NoErr
                      THEN [b EXCEPT !.err = wr[u].err, !.pc = "returned",
                                     !.out = [list |-> NilList,
                                              err |-> wr[u].err]]
                      ELSE [b EXCEPT !.models = Append(@, wr[u].id)]
        ELSE batch' = IF wr[u].err # NoErr
                      THEN [b EXCEPT !.err = IF @ = NoErr THEN wr[u].err ELSE @,
                                     !.cancelled = TRUE]
                      ELSE closureStore(b, u, wr[u].id)
  /\ UNCHANGED <<db, pre, last, ncalls>>

\* if err := eg.Wait(); err != nil { return nil, err }; return models, nil
batchReturn(b) ==
  IF b.err # NoErr THEN [list |-> NilList, err |-> b.err]
  ELSE [list |-> b.models, err |-> NoErr]

\* the loop is over and every unit has returned: the batch call returns
Wait ==
  /\ batch.pc = "loop"
  /\ batch.i > batch.n
  /\ UnitsReturned(batch)
  /\ batch' = [batch EXCEPT !.pc = "returned", !.out = batchReturn(batch)]
  /\ UNCHANGED <<db, pre, last, ncalls, wr>>

NextBatch ==
  \/ Dispatch
  \/ Wait
  \/ \E u \in Units : UnitStep(u) \/ UnitFault(u) \/ UnitReturn(u)

SpecBatch == InitBatch /\ [][NextBatch]_vars

-----------------------------------------------------------------------------
(* Queries.  A filter is NilSpec (the nil pointer) or a record of its      *)
(* fields; an absent field is Nil (a string), NULL (an identifier) or      *)
(* NilSpec (a nested filter, a time).                                      *)
(*   PkgSpec = [ID, Name, Version]      SrcSpec = [ID, Name]               *)
(*   ArtifactSpec = [ID, Algorithm, Digest]                                *)

NilSpec == [nil |-> TRUE]

\* optionalPredicate: no constraint when the value is nil
Opt(value, absent, stored) == value = absent \/ stored = value

\* the artifact table keeps algorithm and digest in lower case; the key of
\* an artifact of the model is its digest, the algorithm is sha256
ArtifactDigest(a) == a.key
ArtifactAlgorithm(a) == "sha256"

toLowerPtr(v) == IF v = Nil THEN Nil ELSE ToLower(v)

packageNameQuery(f, n) ==
  f = NilSpec \/ (Opt(f.ID, NULL, n.id) /\ Opt(f.Name, Nil, n.name))

packageVersionQuery(f, v, d) ==
  f = NilSpec
  \/ /\ Opt(f.ID, NULL, v.id)
     /\ Opt(f.Version, Nil, v.version)
     /\ \E n \in d["pkgName"] : n.id = v.name_id /\ Opt(f.Name, Nil, n.name)

artifactQueryPredicates(f, a) ==
  /\ Opt(f.ID, NULL, a.id)
  /\ Opt(toLowerPtr(f.Algorithm), Nil, ArtifactAlgorithm(a))
  /\ Opt(toLowerPtr(f.Digest), Nil, ArtifactDigest(a))

\* the edge predicates: the row has the related row, and it matches
HasPackageVersion(id, f, d) ==
  \E v \in d["pkgVersion"] : v.id = id /\ packageVersionQuery(f, v, d)

HasPackageName(id, f, d) ==
  \E n \in d["pkgName"] : n.id = id /\ packageNameQuery(f, n)

isOccurrenceQuery(f, r, d) ==
  f = NilSpec
  \/ /\ Opt(f.ID, NULL, r.id)
     /\ Opt(f.Justification, Nil, r.justification)
     /\ Opt(f.Origin, Nil, r.origin)
     /\ Opt(f.Collector, Nil, r.collector)
     /\ f.Artifact # NilSpec =>
          \E a \in d["artifact"] :
             /\ a.id = r.artifact_id
             /\ Opt(f.Artifact.Digest, Nil, ArtifactDigest(a))
             /\ Opt(f.Artifact.Algorithm, Nil, ArtifactAlgorithm(a))
             /\ Opt(f.Artifact.ID, NULL, a.id)
     /\ f.Subject # NilSpec =>
          IF f.Subject.Package # NilSpec
          THEN HasPackageVersion(r.package_id, f.Subject.Package, d)
          ELSE IF f.Subject.Source # NilSpec
          THEN \E n \in d["srcName"] :
                  /\ n.id = r.source_id
                  /\ Opt(f.Subject.Source.ID, NULL, n.id)
                  /\ Opt(f.Subject.Source.Name, Nil, n.name)
          ELSE TRUE

(* Mutant of isDependencyQuery: a dependent-package filter is matched      *)
(* against the version-level dependent only, version given or not.         *)
isDependencyQuery_VersionOnly(f, r, d) ==
  f = NilSpec
  \/ /\ Opt(f.ID, NULL, r.id)
     /\ Opt(f.VersionRange, Nil, r.version_range)
     /\ Opt(f.Justification, Nil, r.justification)
     /\ Opt(f.Origin, Nil, r.origin)
     /\ Opt(f.Collector, Nil, r.collector)
     /\ f.DependencyPackage # NilSpec =>
          HasPackageVersion(r.dependent_package_version_id,
                            f.DependencyPackage, d)
     /\ f.Package # NilSpec => HasPackageVersion(r.package_id, f.Package, d)
     /\ f.DependencyType # Nil =>
          r.dependency_type = dependencyTypeToEnum(f.DependencyType)

isDependencyQuery(f, r, d) ==
  f = NilSpec
  \/ /\ Opt(f.ID, NULL, r.id)
     /\ Opt(f.VersionRange, Nil, r.version_range)
     /\ Opt(f.Justification, Nil, r.justification)
     /\ Opt(f.Origin, Nil, r.origin)
     /\ Opt(f.Collector, Nil, r.collector)
     /\ f.DependencyPackage # NilSpec =>
          IF f.DependencyPackage.Version = Nil
          THEN \/ HasPackageName(r.dependent_package_name_id,
                                 f.DependencyPackage, d)
               \/ HasPackageVersion(r.dependent_package_version_id,
                                    f.DependencyPackage, d)
          ELSE HasPackageVersion(r.dependent_package_version_id,
                                 f.DependencyPackage, d)
     /\ f.Package # NilSpec => HasPackageVersion(r.package_id, f.Package, d)
     /\ f.DependencyType # Nil =>
          r.dependency_type = dependencyTypeToEnum(f.DependencyType)

\* the predicates HasSBOM builds from a filter that is not nil
hasSBOMPredicates(f, r, d) ==
  /\ Opt(f.ID, NULL, r.id)
  /\ Opt(toLowerPtr(f.Algorithm), Nil, r.algorithm)
  /\ Opt(toLowerPtr(f.Digest), Nil, r.digest)
  /\ Opt(f.URI, Nil, r.uri)
  /\ Opt(f.Collector, Nil, r.collector)
  /\ Opt(f.DownloadLocation, Nil, r.download_location)
  /\ Opt(f.Origin, Nil, r.origin)
  /\ f.KnownSince # NilSpec => r.known_since.instant = f.KnownSince.instant
  /\ f.Subject # NilSpec =>
       IF f.Subject.Package # NilSpec
       THEN HasPackageVersion(r.package_id, f.Subject.Package, d)
       ELSE IF f.Subject.Artifact # NilSpec
       THEN \E a \in d["artifact"] :
               a.id = r.artifact_id
               /\ artifactQueryPredicates(f.Subject.Artifact, a)
       ELSE TRUE
  /\ \A i \in 1..Len(f.IncludedSoftware) :
       IF f.IncludedSoftware[i].Package # NilSpec
       THEN \E x \in r.included_software_packages :
               HasPackageVersion(x, f.IncludedSoftware[i].Package, d)
       ELSE \E a \in d["artifact"] :
               /\ a.id \in r.included_software_artifacts
               /\ artifactQueryPredicates(f.IncludedSoftware[i].Artifact, a)
  /\ \A i \in 1..Len(f.IncludedDependencies) :
       \E x \in d["dependency"] :
          /\ x.id \in r.included_dependencies
          /\ isDependencyQuery(f.IncludedDependencies[i], x, d)
  /\ \A i \in 1..Len(f.IncludedOccurrences) :
       \E x \in d["occurrence"] :
          /\ x.id \in r.included_occurrences
          /\ isOccurrenceQuery(f.IncludedOccurrences[i], x, d)

\* Limit(n) with no order: any n of the rows, all of them when fewer
Limit(rows, n) ==
  IF Cardinality(rows) <= n THEN {rows}
  ELSE {S \in SUBSET rows : Cardinality(S) = n}

\* Order(ent.Asc(FieldID)).Limit(n): the n rows of least identifier
FirstById(rows, n) ==
  {r \in rows : Cardinality({x \in rows : x.id < r.id}) < n}

-----------------------------------------------------------------------------
(* Eager loading.  A query names the edges to load with it, and for each   *)
(* the edges to load with the related rows: a tree of edge names, <<>> at  *)
(* a leaf.  A loaded row is [row, Edges]; an edge that was not asked for,  *)
(* or that has no related row, is NilSpec.                                 *)
(* The store of the model keeps one node per identity path: the namespace  *)
(* and the type of a name node are that node at the level above.           *)

\* the rows at the other end of edge e of a row of table t
Related(t, e, row, d) ==
  CASE t = "occurrence" /\ e = "Artifact" ->
         {[table |-> "artifact", row |-> a] :
            a \in {x \in d["artifact"] : x.id = row.artifact_id}}
    [] t = "occurrence" /\ e = "Package" ->
         {[table |-> "pkgVersion", row |-> v] :
            v \in {x \in d["pkgVersion"] : x.id = row.package_id}}
    [] t = "occurrence" /\ e = "Source" ->
         {[table |-> "srcName", row |-> n] :
            n \in {x \in d["srcName"] : x.id = row.source_id}}
    [] t = "pkgVersion" /\ e = "Name" ->
         {[table |-> "pkgName", row |-> n] :
            n \in {x \in d["pkgName"] : x.id = row.name_id}}
    [] t = "pkgName" /\ e = "Namespace" ->
         {[table |-> "pkgNamespace", row |-> row]}
    [] t = "pkgNamespace" /\ e = "Package" ->
         {[table |-> "pkgType", row |-> row]}
    [] t = "srcName" /\ e = "Namespace" ->
         {[table |-> "srcNamespace", row |-> row]}
    [] t = "srcNamespace" /\ e = "SourceType" ->
         {[table |-> "srcType", row |-> row]}
    [] OTHER -> {}

AllEdges == {"Artifact", "Package", "Source", "Name", "Namespace",
             "SourceType"}

RECURSIVE Load(_, _, _, _)
Load(t, row, with, d) ==
  [row |-> row,
   Edges |-> [e \in AllEdges |->
                IF e \notin DOMAIN with \/ Related(t, e, row, d) = {}
                THEN NilSpec
                ELSE LET x == CHOOSE y \in Related(t, e, row, d) : TRUE
                     IN Load(x.table, x.row, with[e], d)]]

(* Mutant of occurrenceWith: the package version is loaded without its     *)
(* name.                                                                   *)
occurrenceWith_VersionOnly ==
  [Artifact |-> <<>>,
   Package |-> <<>>,
   Source |-> [Namespace |-> [SourceType |-> <<>>]]]

\* WithArtifact().WithPackage(..WithName(..WithNamespace(..WithPackage())))
\* .WithSource(..WithNamespace(..WithSourceType()))
occurrenceWith ==
  [Artifact |-> <<>>,
   Package |-> [Name |-> [Namespace |-> [Package |-> <<>>]]],
   Source |-> [Namespace |-> [SourceType |-> <<>>]]]

\* the value a loaded node gives, Nil when the edge was not loaded
Field(node, f) == IF node = NilSpec THEN Nil ELSE node.row[f]
Edge(node, e) == IF node = NilSpec THEN NilSpec ELSE node.Edges[e]

(* The response model of a loaded occurrence: the subject is the package   *)
(* (version, name, namespace, type) when the package edge is loaded, the   *)
(* source (name, namespace, type) when the source edge is, each level read *)
(* from the loaded edges alone.                                            *)
toModelIsOccurrenceWithSubject(o) ==
  LET v == o.Edges["Package"]
      n == Edge(v, "Name")
      ns == Edge(n, "Namespace")
      ty == Edge(ns, "Package")
      s == o.Edges["Source"]
      sns == Edge(s, "Namespace")
      sty == Edge(sns, "SourceType")
  IN [ID |-> o.row.id,
      Subject |->
        IF v # NilSpec
        THEN [kind |-> "package", Version |-> Field(v, "version"),
              Name |-> Field(n, "name"), Namespace |-> Field(ns, "name"),
              Type |-> Field(ty, "name")]
        ELSE IF s # NilSpec
        THEN [kind |-> "source", Version |-> Nil,
              Name |-> Field(s, "name"), Namespace |-> Field(sns, "name"),
              Type |-> Field(sty, "name")]
        ELSE [kind |-> "none", Version |-> Nil, Name |-> Nil,
              Namespace |-> Nil, Type |-> Nil],
      Artifact |-> Field(o.Edges["Artifact"], "key"),
      Justification |-> o.row.justification,
      Origin |-> o.row.origin,
      Collector |-> o.row.collector]

-----------------------------------------------------------------------------
(* SpecQuery: the query entry points over a store filled by ingestion.     *)
(*   last = [op, in: the filter, out: the rows returned,                   *)
(*           outcome: "ok" | "nil" (nil, nil returned) | "panic"]          *)

\* the page size, scaled down from the program's
MaxPageSize == 2

P3 == [name |-> "n2", version |-> "v1"]

RECURSIVE RunAll(_, _)
RunAll(d, calls) ==
  IF calls = <<>> THEN d
  ELSE RunAll(Run(d, calls[1], "none").db, Tail(calls))

(* Three occurrences (package, source, package with another origin), four  *)
(* dependencies (on a version, on every version of its name, on every      *)
(* version of another name, on a version of that name) and three SBOMs     *)
(* (one with all four included sets and its digest given in upper case,    *)
(* one of an artifact, one with another digest and origin).                *)
QueryStore ==
  RunAll(InitDb,
    <<NewCall("IngestOccurrence", OccInput(P1, Nil, "a1")),
      NewCall("IngestOccurrence", OccInput(NilPkg, "s1", "a1")),
      NewCall("IngestOccurrence",
              [OccInput(P1, Nil, "a1") EXCEPT !.origin = "o2"]),
      NewCall("IngestDependency", DepInput(P1, P2, "SPECIFIC_VERSION")),
      NewCall("IngestDependency", DepInput(P1, P2, "ALL_VERSIONS")),
      NewCall("IngestDependency", DepInput(P1, P3, "ALL_VERSIONS")),
      NewCall("IngestDependency", DepInput(P2, P3, "SPECIFIC_VERSION")),
      NewCall("IngestHasSbom",
              SbomInput(P1, Nil, "D1", "o1", Inc(<<2>>, <<1>>, <<1>>, <<2>>))),
      NewCall("IngestHasSbom", SbomInput(NilPkg, "a1", "d1", "o1", EmptyInc)),
      NewCall("IngestHasSbom",
              SbomInput(P1, Nil, "d2", "o2", Inc(<<1>>, <<>>, <<2>>, <<>>)))>>)

PkgSpec(id, name, version) == [ID |-> id, Name |-> name, Version |-> version]
SrcSpec(id, name) == [ID |-> id, Name |-> name]
ArtifactSpec(id, algorithm, digest) ==
  [ID |-> id, Algorithm |-> algorithm, Digest |-> digest]

PkgSpecs ==
  {PkgSpec(NULL, "n1", Nil), PkgSpec(NULL, "n1", "v2"),
   PkgSpec(NULL, Nil, "v1"), PkgSpec(NULL, "n2", Nil)}

ArtifactSpecs ==
  {ArtifactSpec(NULL, Nil, "a1"), ArtifactSpec(NULL, Nil, "A1"),
   ArtifactSpec(NULL, "SHA256", Nil), ArtifactSpec(1, Nil, Nil)}

OccFilters ==
  {NilSpec} \cup
  [ID : {NULL, 1}, Justification : {Nil}, Origin : {Nil, "o1", "o2"},
   Collector : {Nil, "c1"},
   Artifact : {NilSpec} \cup ArtifactSpecs,
   Subject : {NilSpec}
             \cup [Package : {NilSpec, PkgSpec(NULL, "n1", "v1")},
                   Source : {NilSpec, SrcSpec(NULL, "s1")}]]

DepFilters ==
  {NilSpec} \cup
  [ID : {NULL, 2}, VersionRange : {Nil, "r1"}, Justification : {Nil},
   Origin : {Nil, "o1"}, Collector : {Nil},
   DependencyPackage : {NilSpec} \cup PkgSpecs,
   Package : {NilSpec, PkgSpec(NULL, "n1", "v1")},
   DependencyType : {Nil, "DIRECT", "INDIRECT"}]

SoftwareSpecs ==
  {<<>>,
   <<[Package |-> PkgSpec(NULL, "n1", "v2"), Artifact |-> NilSpec]>>,
   <<[Package |-> NilSpec, Artifact |-> ArtifactSpec(NULL, Nil, "A1")]>>,
   <<[Package |-> PkgSpec(NULL, "n1", "v2"), Artifact |-> NilSpec],
     [Package |-> PkgSpec(NULL, "n1", "v1"), Artifact |-> NilSpec]>>}

SbomFilters ==
  {NilSpec} \cup
  [ID : {NULL}, Algorithm : {Nil, "SHA256"}, Digest : {Nil, "d1", "D1"},
   URI : {Nil, "u1"}, Collector : {Nil}, DownloadLocation : {Nil},
   Origin : {Nil, "o2"}, KnownSince : {NilSpec, KnownSince},
   Subject : {NilSpec}
             \cup [Package : {NilSpec, PkgSpec(NULL, "n1", "v1")},
                   Artifact : {NilSpec, ArtifactSpec(NULL, Nil, "A1")}],
   IncludedSoftware : SoftwareSpecs,
   IncludedDependencies :
     {<<>>, <<NilSpec>>,
      <<[ID |-> NULL, VersionRange |-> Nil, Justification |-> Nil,
         Origin |-> Nil, Collector |-> Nil,
         DependencyPackage |-> PkgSpec(NULL, "n2", Nil),
         Package |-> NilSpec, DependencyType |-> Nil]>>},
   IncludedOccurrences :
     {<<>>,
      <<[ID |-> NULL, Justification |-> Nil, Origin |-> Nil,
         Collector |-> Nil, Artifact |-> NilSpec,
         Subject |-> [Package |-> NilSpec,
                      Source |-> SrcSpec(NULL, "s1")]]>>}]

InitQuery ==
  /\ db \in {QueryStore, InitDb}
  /\ pre = db
  /\ last = NoCall
  /\ ncalls = 0
  /\ wr = [w \in Writers |-> Idle]
  /\ batch = NoBatch

Answer(op, f, rows, outcome) ==
  /\ last' = [op |-> op, in |-> f, out |-> rows, outcome |-> outcome]
  /\ UNCHANGED <<db, pre, ncalls, wr, batch>>

\* Occurrence.Query().Where(isOccurrenceQuery(query)).With..().All(ctx), each
\* record converted by toModelIsOccurrenceWithSubject
IsOccurrence(query) ==
  LET records == {r \in db["occurrence"] : isOccurrenceQuery(query, r, db)}
  IN /\ last' = [op |-> "IsOccurrence", in |-> query, out |-> records,
                 outcome |-> "ok",
                 models |-> {toModelIsOccurrenceWithSubject(
                               Load("occurrence", r, occurrenceWith, db)) :
                             r \in records}]
     /\ UNCHANGED <<db, pre, ncalls, wr, batch>>

\* a nil spec returns nil, nil; otherwise the rows in identifier order, cut
\* at the page size
IsDependency(spec) ==
  IF spec = NilSpec
  THEN Answer("IsDependency", spec, {}, "nil")
  ELSE Answer("IsDependency", spec,
              FirstById({r \in db["dependency"] :
                           isDependencyQuery(spec, r, db)}, MaxPageSize),
              "ok")

\* a nil spec is dereferenced; otherwise any page of the matching rows
HasSBOM(spec) ==
  IF spec = NilSpec
  THEN Answer("HasSBOM", spec, {}, "panic")
  ELSE \E page \in Limit({r \in db["sbom"] : hasSBOMPredicates(spec, r, db)},
                         MaxPageSize) :
          Answer("HasSBOM", spec, page, "ok")

\* one query in a behaviour: a query changes nothing a later one reads
NextQuery ==
  /\ last = NoCall
  /\ \/ \E query \in OccFilters : IsOccurrence(query)
     \/ \E spec \in DepFilters : IsDependency(spec)
     \/ \E spec \in SbomFilters : HasSBOM(spec)

SpecQuery == InitQuery /\ [][NextQuery]_vars

-----------------------------------------------------------------------------
(* Properties of single calls (Spec)                                       *)

RelationOf(op) ==
  CASE op = "IngestOccurrence" -> "occurrence"
    [] op = "IngestDependency" -> "dependency"
    [] op = "IngestHasSbom"    -> "sbom"
    [] OTHER                   -> "artifact"

Called == last.op # "none"
NoStoreFailure == last.fault = "none"

(* C1: calling IngestOccurrence, IngestDependency or IngestHasSbom a       *)
(* second time with the same input, right after a first call that          *)
(* succeeded and with no store failure, returns the same identifier, adds  *)
(* no row, and the relation table holds one row with that identifier.      *)
C1_Idempotent ==
  (last.repeat /\ NoStoreFailure) =>
     /\ last.err = NoErr
     /\ last.id = last.prevId
     /\ db[RelationOf(last.op)] = pre[RelationOf(last.op)]
     /\ Cardinality({r \in db[RelationOf(last.op)] : r.id = last.id}) = 1

(* The same, for IngestOccurrence and IngestDependency alone.              *)
C1_IdempotentOccDep ==
  (last.op \in {"IngestOccurrence", "IngestDependency"}) => C1_Idempotent

C1_Repeated ==
  last.repeat /\ NoStoreFailure /\ last.op = "IngestDependency"

(* C3: every committed Occurrence, Dependency and SBOM row has exactly one *)
(* of its two alternative foreign keys non-null.                           *)
ExactlyOne(x, y) == (x = NULL) # (y = NULL)

C3_ExactlyOneKey ==
  /\ \A r \in db["occurrence"] : ExactlyOne(r.package_id, r.source_id)
  /\ \A r \in db["dependency"] :
       ExactlyOne(r.dependent_package_name_id, r.dependent_package_version_id)
  /\ \A r \in db["sbom"] : ExactlyOne(r.package_id, r.artifact_id)

\* a row was committed by a call whose subject had both variants populated
C3_Witness ==
  /\ last.op = "IngestOccurrence" /\ last.err = NoErr
  /\ last.in.pkg # NilPkg /\ last.in.src # Nil
  /\ db["occurrence"] # {} /\ db["sbom"] # {}

(* C4: IngestOccurrence (IngestHasSbom) whose subject has both variants    *)
(* populated, or neither, fails with an invalid-argument error and creates *)
(* no Occurrence (SBOM) row.                                               *)
BadSubject ==
  \/ /\ last.op = "IngestOccurrence"
     /\ (last.in.pkg # NilPkg) = (last.in.src # Nil)
  \/ /\ last.op = "IngestHasSbom"
     /\ (last.in.pkg # NilPkg) = (last.in.art # Nil)

C4_SubjectValidated ==
  (BadSubject /\ NoStoreFailure) =>
     /\ last.err.kind = "invalid"
     /\ db[RelationOf(last.op)] = pre[RelationOf(last.op)]

(* C5: an Occurrence ingested with a package subject and one ingested with *)
(* a source subject, with the same artifact, justification, origin and     *)
(* collector, are two rows with two identifiers: the later call leaves the *)
(* earlier row in place and returns the identifier of another row, of its  *)
(* own subject kind.                                                       *)
SameFact(r, in, artId) ==
  /\ r.artifact_id = artId
  /\ r.justification = in.justification
  /\ r.origin = in.origin
  /\ r.collector = in.collector

OtherKind(r, in) ==
  IF in.pkg # NilPkg THEN r.source_id # NULL ELSE r.package_id # NULL

OwnKind(r, in) ==
  IF in.pkg # NilPkg THEN r.package_id # NULL ELSE r.source_id # NULL

ArtifactId(key) ==
  LET found == {a \in db["artifact"] : a.key = key}
  IN IF found = {} THEN NULL ELSE (CHOOSE a \in found : TRUE).id

OneSubjectOccurrence ==
  /\ last.op = "IngestOccurrence" /\ last.err = NoErr
  /\ (last.in.pkg # NilPkg) # (last.in.src # Nil)

C5_ScopedConflict ==
  OneSubjectOccurrence =>
    /\ \E r \in db["occurrence"] :
         /\ r.id = last.id
         /\ OwnKind(r, last.in)
         /\ SameFact(r, last.in, ArtifactId(last.in.art))
    /\ \A r \in pre["occurrence"] :
         (OtherKind(r, last.in) /\ SameFact(r, last.in, ArtifactId(last.in.art)))
           => (r \in db["occurrence"] /\ r.id # last.id)

C5_Witness ==
  /\ OneSubjectOccurrence
  /\ \E r \in pre["occurrence"] :
       OtherKind(r, last.in) /\ SameFact(r, last.in, ArtifactId(last.in.art))
  /\ Cardinality(db["occurrence"]) = 2

(* C10: when a step inside the transaction of a single ingestion fails,    *)
(* the committed store is what it was before the call: no relation row, no *)
(* include link and no identity node of that call is committed.            *)
FailedInTx ==
  /\ Called /\ last.err # NoErr
  /\ last.fault # "reread"
  /\ last.err # Err("notfound", "occurrence")

C10_Atomic == FailedInTx => db = pre

\* the upsert failed after the call had created the subject's nodes
C10_Witness ==
  /\ FailedInTx /\ last.fault = "upsert"
  /\ last.op = "IngestOccurrence"
  /\ pre["pkgVersion"] = {} /\ pre["srcName"] = {}

-----------------------------------------------------------------------------
(* Properties of SBOM include lists (SpecSbom)                             *)

IncludeTable(list) ==
  CASE list = "Packages"     -> "pkgVersion"
    [] list = "Artifacts"    -> "artifact"
    [] list = "Dependencies" -> "dependency"
    [] list = "Occurrences"  -> "occurrence"

\* the text by which the error message names each include set
IncludeName(list) ==
  CASE list = "Packages"     -> "PackageVersion"
    [] list = "Artifacts"    -> "artifact"
    [] list = "Dependencies" -> "includes.Dependencies"
    [] list = "Occurrences"  -> "includes.Occurrences"

IncludeOrder == <<"Packages", "Artifacts", "Dependencies", "Occurrences">>

\* the store the include loops of the last call read: the store before the
\* call and the package version the call resolved for its subject
LookupStore ==
  IF last.in.pkg # NilPkg
  THEN Visible(pre, getPkgVersion(pre, EmptyDb, EmptyDb, last.in.pkg).tx)
  ELSE pre

\* the identifiers of an include list of the last call that had no row
Unresolved(list) ==
  LET ids == last.in.inc[list]
  IN {ids[i] : i \in 1..Len(ids)} \ Ids(LookupStore[IncludeTable(list)])

BadLists == {i \in 1..4 : Unresolved(IncludeOrder[i]) # {}}

SbomWithUnresolved ==
  /\ last.op = "IngestHasSbom"
  /\ (last.in.pkg # NilPkg) # (last.in.art # Nil)
  /\ BadLists # {}
  /\ NoStoreFailure

FirstBadList == IncludeOrder[Min(BadLists)]

-----------------------------------------------------------------------------
(* Properties of concurrent writers (SpecConc)                             *)

PkgNameId(p) ==
  LET found == {n \in db["pkgName"] : n.name = p.name}
  IN IF found = {} THEN NULL ELSE (CHOOSE n \in found : TRUE).id

PkgVersionId(p) ==
  LET found == {v \in db["pkgVersion"] :
                  v.name_id = PkgNameId(p) /\ v.version = p.version}
  IN IF found = {} THEN NULL ELSE (CHOOSE v \in found : TRUE).id

SrcNameId(x) ==
  LET found == {n \in db["srcName"] : n.name = x}
  IN IF found = {} THEN NULL ELSE (CHOOSE n \in found : TRUE).id

\* the committed rows that state the fact of call (op, in)
FactRows(op, in) ==
  CASE op = "IngestOccurrence" ->
         {r \in db["occurrence"] :
            /\ SameFact(r, in, ArtifactId(in.art))
            /\ IF in.pkg # NilPkg
               THEN r.package_id = PkgVersionId(in.pkg) /\ r.source_id = NULL
               ELSE r.source_id = SrcNameId(in.src) /\ r.package_id = NULL}
    [] op = "IngestDependency" ->
         {r \in db["dependency"] :
            /\ r.package_id = PkgVersionId(in.pkg)
            /\ r.version_range = in.version_range
            /\ r.dependency_type = in.dependency_type
            /\ r.justification = in.justification
            /\ r.origin = in.origin
            /\ r.collector = in.collector
            /\ IF in.matchType = "ALL_VERSIONS"
               THEN /\ r.dependent_package_name_id = PkgNameId(in.depPkg)
                    /\ r.dependent_package_version_id = NULL
               ELSE /\ r.dependent_package_version_id = PkgVersionId(in.depPkg)
                    /\ r.dependent_package_name_id = NULL}
    [] op = "IngestHasSbom" ->
         {r \in db["sbom"] :
            /\ r.uri = in.uri
            /\ r.algorithm = ToLower(in.algorithm)
            /\ r.digest = ToLower(in.digest)
            /\ r.download_location = in.download_location
            /\ r.known_since = UTC(in.known_since)
            /\ IF in.pkg # NilPkg
               THEN r.package_id = PkgVersionId(in.pkg) /\ r.artifact_id = NULL
               ELSE r.artifact_id = ArtifactId(in.art) /\ r.package_id = NULL}

Returned(w) == wr[w].pc = "done" /\ wr[w].err = NoErr

(* C2: however the store calls of the writers interleave, the relation     *)
(* table never holds two rows for the fact of a writer, and every writer   *)
(* that has returned without error returned the identifier of the one row  *)
(* that states its fact.                                                   *)
C2_OneRowPerFact ==
  \A w \in DOMAIN wr :
     wr[w].op # "none" =>
       /\ Cardinality(FactRows(wr[w].op, wr[w].in)) <= 1
       /\ Returned(w) =>
            /\ Cardinality(FactRows(wr[w].op, wr[w].in)) = 1
            /\ \A r \in FactRows(wr[w].op, wr[w].in) : r.id = wr[w].id

\* two writers of the same fact both returned, one of them after waiting
\* for the other's uncommitted row
C2_Witness ==
  \E v, w \in DOMAIN wr :
     /\ v # w
     /\ wr[v].op = "IngestDependency" /\ wr[v].in = wr[w].in
     /\ wr[v].op = wr[w].op
     /\ Returned(v) /\ Returned(w)
     /\ wr[v].id = wr[w].id

-----------------------------------------------------------------------------
(* Properties of a batch call (SpecBatch)                                  *)

Finished == batch.pc \in {"returned", "panicked"}

ReturnedOk == batch.pc = "returned" /\ batch.out.err = NoErr

SomeUnitFailed ==
  \E u \in Units : wr[u].pc \in {"done", "returned"} /\ wr[u].err # NoErr

\* the length of the subject array the loop indexes
SubjectLen(b) ==
  CASE b.kind = "IngestOccurrences" ->
         IF Len(b.in.Packages) > 0 THEN Len(b.in.Packages)
                                   ELSE Len(b.in.Sources)
    [] b.kind = "IngestDependencies" -> Len(b.in.pkgs)
    [] b.kind = "IngestHasSBOMs" ->
         IF Len(b.in.Artifacts) > 0 THEN Len(b.in.Artifacts)
                                    ELSE Len(b.in.Packages)

\* the length of the other array the loop indexes
ObjectLen(b) ==
  CASE b.kind = "IngestOccurrences" -> Len(b.in.artifacts)
    [] b.kind = "IngestDependencies" -> Len(b.in.depPkgs)
    [] b.kind = "IngestHasSBOMs" -> Len(b.in.includes)

Mismatched(b) == SubjectLen(b) # b.n \/ ObjectLen(b) # b.n

(* C7: when IngestOccurrences or IngestDependencies has returned without   *)
(* error, the returned list has one identifier per input, and the i-th is  *)
(* the identifier the ingestion of the i-th input returned, which is the   *)
(* identifier of the committed row stating the i-th input, in whatever     *)
(* order the units returned.                                               *)
C7_ResultsInInputOrder ==
  (ReturnedOk /\ ~Sequential(batch)) =>
     /\ Len(batch.out.list) = batch.n
     /\ \A i \in 1..batch.n :
          /\ batch.out.list[i] # NULL
          /\ batch.out.list[i] = batch.ids[i]
          /\ \E r \in FactRows(UnitCall(batch, i).op, UnitCall(batch, i).in) :
                r.id = batch.out.list[i]

\* a successful batch of two different inputs whose second unit returned
\* first
C7_Witness ==
  /\ ReturnedOk /\ ~Sequential(batch)
  /\ batch.n = 2
  /\ batch.order = <<2, 1>>
  /\ batch.out.list[1] # batch.out.list[2]

(* C8: when the ingestion of an item has failed and the batch call is      *)
(* over, the call has returned an error and a nil list.                    *)
C8_FailureReported ==
  (Finished /\ SomeUnitFailed) =>
     /\ batch.pc = "returned"
     /\ batch.out.err # NoErr
     /\ batch.out.list = NilList

\* the part of C8 that holds: a batch call that returns after an item has
\* failed returns the error and the nil list, never identifiers
C8_NoPartialList ==
  (batch.pc = "returned" /\ SomeUnitFailed) =>
     batch.out.err # NoErr /\ batch.out.list = NilList

C8_ErrorReturned ==
  /\ batch.pc = "returned" /\ SomeUnitFailed
  /\ \E u \in Units : wr[u].pc = "returned" /\ wr[u].err = NoErr

(* C9: a batch call whose parallel arrays differ in length starts no unit  *)
(* of work, leaves the store as it was, and returns an invalid-argument    *)
(* error.                                                                  *)
C9_LengthsChecked ==
  Mismatched(batch) =>
     /\ \A u \in Units : wr[u].pc = "idle"
     /\ db = InitDb
     /\ Finished => batch.pc = "returned" /\ batch.out.err.kind = "invalid"

\* a batch with fewer artifacts than occurrences has committed a row and
\* then panicked on the index out of range
C9_Panicked ==
  /\ Mismatched(batch)
  /\ batch.pc = "panicked"
  /\ db # InitDb

-----------------------------------------------------------------------------
(* Properties of repeated SBOM and dependency ingestion (Spec)             *)

\* the rows the relation table held before the last call that state the
\* fact of the last call
PreFact == FactRows(last.op, last.in) \cap pre[RelationOf(last.op)]

OneSubject(in) == (in.pkg = NilPkg) # (in.art = Nil)

IncludeSet(l) == {l[i] : i \in 1..Len(l)}

\* the four included sets of row r are those of the include lists inc
SameIncludes(r, inc) ==
  /\ r.included_software_packages = IncludeSet(inc.Packages)
  /\ r.included_software_artifacts = IncludeSet(inc.Artifacts)
  /\ r.included_dependencies = IncludeSet(inc.Dependencies)
  /\ r.included_occurrences = IncludeSet(inc.Occurrences)

\* the last call was an SBOM ingestion whose row existed with the same
\* attributes and other included sets, and whose include lists resolved
RepeatOtherIncludes ==
  /\ last.op = "IngestHasSbom" /\ NoStoreFailure
  /\ OneSubject(last.in)
  /\ last.err.kind # "lookup"
  /\ \E r \in PreFact : /\ r.origin = last.in.origin
                        /\ r.collector = last.in.collector
                        /\ ~SameIncludes(r, last.in.inc)

(* C11: an SBOM ingestion whose row exists with the same subject and       *)
(* attributes and other included sets returns the identifier of that row   *)
(* and leaves the SBOM table, included sets and all, as it was.            *)
C11_RepeatKeepsSbom ==
  RepeatOtherIncludes =>
     /\ last.err = NoErr
     /\ \A r \in PreFact : last.id = r.id
     /\ db["sbom"] = pre["sbom"]

\* the part of C11 that holds: the call leaves every existing SBOM row,
\* included sets and all, as it was
C11_IncludesKept ==
  last.op = "IngestHasSbom" => pre["sbom"] \subseteq db["sbom"]

\* the last call was a dependency or SBOM ingestion that met a row with its
\* scoped conflict key, and whose include lists resolved
ConflictingIgnore ==
  /\ last.op \in {"IngestDependency", "IngestHasSbom"} /\ NoStoreFailure
  /\ last.op = "IngestHasSbom" => OneSubject(last.in)
  /\ last.err.kind # "lookup"
  /\ PreFact # {}

(* C12: a dependency or SBOM ingestion that meets a row with its scoped    *)
(* conflict key returns the identifier of that row, creates no row, and    *)
(* leaves every column of the row (origin and collector of an SBOM         *)
(* included) as it was.                                                    *)
C12_FirstWriterWins ==
  ConflictingIgnore =>
     /\ last.err = NoErr
     /\ \A r \in PreFact : last.id = r.id
     /\ db[RelationOf(last.op)] = pre[RelationOf(last.op)]

\* the part of C12 that holds: the conflicting call creates no row and
\* changes none, and a dependency ingestion returns the row's identifier
C12_RowUntouched ==
  ConflictingIgnore =>
     /\ db[RelationOf(last.op)] = pre[RelationOf(last.op)]
     /\ last.op = "IngestDependency" =>
          last.err = NoErr /\ \A r \in PreFact : last.id = r.id

\* an SBOM ingestion with another origin met the existing row and returned
\* its identifier
C12_OtherOrigin ==
  /\ ConflictingIgnore /\ last.op = "IngestHasSbom" /\ last.err = NoErr
  /\ \E r \in PreFact : r.origin # last.in.origin /\ last.id = r.id

-----------------------------------------------------------------------------
(* Properties of the included sets (SpecSbom)                              *)

\* the SBOM rows the last call created
NewSboms == db["sbom"] \ pre["sbom"]

(* C13: an SBOM ingestion, successful or failed, leaves the artifact,      *)
(* dependency and occurrence tables as they were and adds no package       *)
(* version but that of its own subject; every identifier linked to an SBOM *)
(* row it creates is that of a row the table held before the call (or of   *)
(* the package version that is the subject of the row).                    *)
C13_NoImplicitRows ==
  last.op = "IngestHasSbom" =>
     /\ db["artifact"] = pre["artifact"]
     /\ db["dependency"] = pre["dependency"]
     /\ db["occurrence"] = pre["occurrence"]
     /\ \A v \in db["pkgVersion"] \ pre["pkgVersion"] :
          v.id = PkgVersionId(last.in.pkg)
     /\ \A r \in NewSboms :
          /\ r.included_software_packages \subseteq Ids(LookupStore["pkgVersion"])
          /\ r.included_software_artifacts \subseteq Ids(pre["artifact"])
          /\ r.included_dependencies \subseteq Ids(pre["dependency"])
          /\ r.included_occurrences \subseteq Ids(pre["occurrence"])

\* an SBOM row was created with all four included sets, and a call whose
\* include list named a missing identifier has failed
C13_Witness ==
  /\ last.op = "IngestHasSbom" /\ last.err.kind = "lookup"
  /\ last.missing # NULL
  /\ \E r \in db["sbom"] : /\ r.included_software_packages # {}
                           /\ r.included_software_artifacts # {}
                           /\ r.included_dependencies # {}
                           /\ r.included_occurrences # {}

-----------------------------------------------------------------------------
(* Properties of the identity nodes under concurrent writers (SpecConc)    *)

\* the relation row writer w returned
RowOf(w) ==
  CHOOSE r \in db[RelationOf(wr[w].op)] : r.id = wr[w].id

\* the row writer w returned references the nodes of the paths of its input
ReferencesPath(w) ==
  LET in == wr[w].in
      r == RowOf(w)
  IN CASE wr[w].op = "IngestOccurrence" ->
            IF in.pkg # NilPkg
            THEN r.package_id # NULL /\ r.package_id = PkgVersionId(in.pkg)
            ELSE r.source_id # NULL /\ r.source_id = SrcNameId(in.src)
       [] wr[w].op = "IngestDependency" ->
            /\ r.package_id # NULL /\ r.package_id = PkgVersionId(in.pkg)
            /\ IF in.matchType = "ALL_VERSIONS"
               THEN /\ r.dependent_package_name_id # NULL
                    /\ r.dependent_package_name_id = PkgNameId(in.depPkg)
               ELSE /\ r.dependent_package_version_id # NULL
                    /\ r.dependent_package_version_id = PkgVersionId(in.depPkg)
       [] wr[w].op = "IngestHasSbom" ->
            r.package_id # NULL /\ r.package_id = PkgVersionId(in.pkg)

(* C14: however the store calls of the writers interleave, the store holds *)
(* at most one package name node per name, one package version node per    *)
(* name node and version, and one source node per source, and the row      *)
(* every writer returned references the node of each path of its input.    *)
C14_OneNodePerPath ==
  /\ \A m, n \in db["pkgName"] : m.name = n.name => m = n
  /\ \A u, v \in db["pkgVersion"] :
       (u.name_id = v.name_id /\ u.version = v.version) => u = v
  /\ \A m, n \in db["srcName"] : m.name = n.name => m = n
  /\ \A v \in db["pkgVersion"] : v.name_id \in Ids(db["pkgName"])
  /\ \A w \in DOMAIN wr : Returned(w) => ReferencesPath(w)

\* an occurrence writer and a dependency writer of the same package both
\* returned, and a third node of the path was resolved by the dependency
C14_Witness ==
  \E v, w \in DOMAIN wr :
     /\ Returned(v) /\ Returned(w)
     /\ wr[v].op = "IngestOccurrence" /\ wr[w].op = "IngestDependency"
     /\ wr[v].in.pkg = wr[w].in.pkg
     /\ Cardinality(db["pkgVersion"]) = 2
     /\ Cardinality(db["pkgName"]) = 1

-----------------------------------------------------------------------------
(* Properties of the queries (SpecQuery)                                   *)

Queries == {"IsOccurrence", "IsDependency", "HasSBOM"}

QueryTable(op) ==
  CASE op = "IsOccurrence" -> "occurrence"
    [] op = "IsDependency" -> "dependency"
    [] op = "HasSBOM"      -> "sbom"

Queried == last.op \in Queries

(* C15: a query with a nil filter returns without failing, and returns     *)
(* rows of its relation: all of them, or at least a full page.             *)
C15_NilMatchesAll ==
  (Queried /\ last.in = NilSpec) =>
     /\ last.outcome # "panic"
     /\ last.out \subseteq db[QueryTable(last.op)]
     /\ \/ last.out = db[QueryTable(last.op)]
        \/ Cardinality(last.out) >= MaxPageSize

\* the part of C15 that holds: IsOccurrence with a nil filter returns every
\* row
C15_NilOccurrence ==
  (last.op = "IsOccurrence" /\ last.in = NilSpec) =>
     last.outcome = "ok" /\ last.out = db["occurrence"]

(* C16: a query returns at most MaxPageSize rows.                          *)
C16_PageCapped ==
  Queried => Cardinality(last.out) <= MaxPageSize

\* the part of C16 that holds: IsDependency and HasSBOM return at most
\* MaxPageSize rows
C16_DependencySbomCapped ==
  last.op \in {"IsDependency", "HasSBOM"} =>
     Cardinality(last.out) <= MaxPageSize

\* a query of more matching rows than a page returned a full page
C16_FullPage ==
  /\ last.op \in {"IsDependency", "HasSBOM"}
  /\ Cardinality(last.out) = MaxPageSize
  /\ Cardinality(db[QueryTable(last.op)]) > MaxPageSize

\* the filter p matches the name-level dependent of row r
NameLevelMatch(p, r) ==
  \E n \in db["pkgName"] :
     /\ n.id = r.dependent_package_name_id
     /\ p.ID = NULL \/ n.id = p.ID
     /\ p.Name = Nil \/ n.name = p.Name

\* the filter p matches the version-level dependent of row r
VersionLevelMatch(p, r) ==
  \E v \in db["pkgVersion"] :
     /\ v.id = r.dependent_package_version_id
     /\ p.ID = NULL \/ v.id = p.ID
     /\ p.Version = Nil \/ v.version = p.Version
     /\ \E n \in db["pkgName"] :
          n.id = v.name_id /\ (p.Name = Nil \/ n.name = p.Name)

DependentFiltered ==
  /\ last.op = "IsDependency" /\ last.in # NilSpec
  /\ last.in.DependencyPackage # NilSpec

\* the rows that satisfy the other fields of the filter of the last query
RestMatched ==
  {r \in db["dependency"] :
     isDependencyQuery([last.in EXCEPT !.DependencyPackage = NilSpec], r, db)}

(* C17: a dependency query with a DependencyPackage filter returns the     *)
(* first page of the rows that satisfy the other fields and whose          *)
(* name-level or version-level dependent the filter matches when it gives  *)
(* no version, and whose version-level dependent it matches when it gives  *)
(* one (a row with a name-level dependent is then never returned).         *)
C17_NameOrVersion ==
  DependentFiltered =>
     LET p == last.in.DependencyPackage
         want == {r \in RestMatched :
                    IF p.Version = Nil
                    THEN NameLevelMatch(p, r) \/ VersionLevelMatch(p, r)
                    ELSE VersionLevelMatch(p, r)}
     IN /\ last.out = FirstById(want, MaxPageSize)
        /\ p.Version # Nil =>
             \A r \in last.out : r.dependent_package_name_id = NULL

\* a filter with no version returned a row with a name-level dependent and
\* a row with a version-level dependent
C17_Witness ==
  /\ DependentFiltered
  /\ last.in.DependencyPackage.Version = Nil
  /\ \E r \in last.out : r.dependent_package_name_id # NULL
  /\ \E r \in last.out : r.dependent_package_version_id # NULL

\* a filter with a version left out a row whose name-level dependent has
\* the name of the filter
C17_VersionGiven ==
  /\ DependentFiltered
  /\ last.in.DependencyPackage.Version # Nil
  /\ last.out # {}
  /\ \E r \in RestMatched \ last.out :
        \E n \in db["pkgName"] : /\ n.id = r.dependent_package_name_id
                                 /\ n.name = last.in.DependencyPackage.Name

\* a string field, an identifier field of a filter is absent or equal
Str(v, stored) == v = Nil \/ v = stored
Idf(v, stored) == v = NULL \/ v = stored

\* the package version with identifier id exists and satisfies filter p
PkgSatisfied(p, id) ==
  \E v \in db["pkgVersion"] :
     /\ v.id = id /\ Idf(p.ID, v.id) /\ Str(p.Version, v.version)
     /\ \E n \in db["pkgName"] : n.id = v.name_id /\ Str(p.Name, n.name)

\* the artifact with identifier id exists and satisfies filter a
ArtSatisfied(a, id) ==
  \E x \in db["artifact"] :
     /\ x.id = id /\ Idf(a.ID, x.id)
     /\ a.Digest = Nil \/ ToLower(a.Digest) = ArtifactDigest(x)
     /\ a.Algorithm = Nil \/ ToLower(a.Algorithm) = ArtifactAlgorithm(x)

SrcSatisfied(q, id) ==
  \E n \in db["srcName"] :
     n.id = id /\ Idf(q.ID, n.id) /\ Str(q.Name, n.name)

\* row r satisfies every field present in the occurrence filter f
OccSatisfies(f, r) ==
  f = NilSpec
  \/ /\ Idf(f.ID, r.id) /\ Str(f.Justification, r.justification)
     /\ Str(f.Origin, r.origin) /\ Str(f.Collector, r.collector)
     /\ f.Artifact # NilSpec => ArtSatisfied(f.Artifact, r.artifact_id)
     /\ f.Subject # NilSpec =>
          /\ f.Subject.Package # NilSpec =>
               PkgSatisfied(f.Subject.Package, r.package_id)
          /\ f.Subject.Source # NilSpec =>
               SrcSatisfied(f.Subject.Source, r.source_id)

\* row r satisfies every field present in the dependency filter f
DepSatisfies(f, r) ==
  f = NilSpec
  \/ /\ Idf(f.ID, r.id) /\ Str(f.VersionRange, r.version_range)
     /\ Str(f.Justification, r.justification)
     /\ Str(f.Origin, r.origin) /\ Str(f.Collector, r.collector)
     /\ Str(f.DependencyType, r.dependency_type)
     /\ f.Package # NilSpec => PkgSatisfied(f.Package, r.package_id)
     /\ f.DependencyPackage # NilSpec =>
          \/ VersionLevelMatch(f.DependencyPackage, r)
          \/ /\ f.DependencyPackage.Version = Nil
             /\ NameLevelMatch(f.DependencyPackage, r)

\* row r satisfies every field present in the SBOM filter f
SbomSatisfies(f, r) ==
  /\ Idf(f.ID, r.id) /\ Str(f.URI, r.uri)
  /\ f.Algorithm = Nil \/ ToLower(f.Algorithm) = r.algorithm
  /\ f.Digest = Nil \/ ToLower(f.Digest) = r.digest
  /\ Str(f.Collector, r.collector) /\ Str(f.Origin, r.origin)
  /\ Str(f.DownloadLocation, r.download_location)
  /\ f.KnownSince # NilSpec => f.KnownSince.instant = r.known_since.instant
  /\ f.Subject # NilSpec =>
       /\ f.Subject.Package # NilSpec =>
            PkgSatisfied(f.Subject.Package, r.package_id)
       /\ f.Subject.Artifact # NilSpec =>
            ArtSatisfied(f.Subject.Artifact, r.artifact_id)
  /\ \A i \in 1..Len(f.IncludedSoftware) :
       /\ f.IncludedSoftware[i].Package # NilSpec =>
            \E x \in r.included_software_packages :
               PkgSatisfied(f.IncludedSoftware[i].Package, x)
       /\ f.IncludedSoftware[i].Artifact # NilSpec =>
            \E x \in r.included_software_artifacts :
               ArtSatisfied(f.IncludedSoftware[i].Artifact, x)
  /\ \A i \in 1..Len(f.IncludedDependencies) :
       \E x \in db["dependency"] :
          x.id \in r.included_dependencies
          /\ DepSatisfies(f.IncludedDependencies[i], x)
  /\ \A i \in 1..Len(f.IncludedOccurrences) :
       \E x \in db["occurrence"] :
          x.id \in r.included_occurrences
          /\ OccSatisfies(f.IncludedOccurrences[i], x)

Satisfies(op, f, r) ==
  CASE op = "IsOccurrence" -> OccSatisfies(f, r)
    [] op = "IsDependency" -> DepSatisfies(f, r)
    [] op = "HasSBOM"      -> SbomSatisfies(f, r)

\* the filter of the last query gives both variants of a subject
BothSubjects ==
  /\ last.in # NilSpec
  /\ last.op \in {"IsOccurrence", "HasSBOM"}
  /\ last.in.Subject # NilSpec
  /\ last.in.Subject.Package # NilSpec
  /\ IF last.op = "IsOccurrence" THEN last.in.Subject.Source # NilSpec
                                  ELSE last.in.Subject.Artifact # NilSpec

(* C18: every row a query returns satisfies every field present in its     *)
(* filter, nested sub-filters and each entry of the included lists         *)
(* included.                                                               *)
C18_Conjunctive ==
  (Queried /\ last.outcome = "ok") =>
     \A r \in last.out : Satisfies(last.op, last.in, r)

\* the part of C18 that holds: the same, for filters that give at most one
\* variant of a subject
C18_ConjunctiveOneSubject ==
  (Queried /\ last.outcome = "ok" /\ ~BothSubjects) =>
     \A r \in last.out : Satisfies(last.op, last.in, r)

\* the occurrence filter f with the algorithm and digest of its artifact
\* sub-filter in lower case
LowerOcc(f) ==
  IF f = NilSpec \/ f.Artifact = NilSpec THEN f
  ELSE [f EXCEPT !.Artifact.Algorithm = toLowerPtr(@),
                 !.Artifact.Digest = toLowerPtr(@)]

\* the SBOM filter f with its algorithm and digest in lower case
LowerSbom(f) ==
  [f EXCEPT !.Algorithm = toLowerPtr(@), !.Digest = toLowerPtr(@)]

StoredLower ==
  \A r \in db["sbom"] :
     r.algorithm = ToLower(r.algorithm) /\ r.digest = ToLower(r.digest)

SbomCaseBlind ==
  (last.op = "HasSBOM" /\ last.outcome = "ok") =>
     last.out \in Limit({r \in db["sbom"] :
                           hasSBOMPredicates(LowerSbom(last.in), r, db)},
                        MaxPageSize)

(* C19: the algorithm and digest of every SBOM row are stored in lower     *)
(* case, and a HasSBOM filter or the artifact sub-filter of an occurrence  *)
(* query returns what the same filter in lower case returns.               *)
C19_CaseNormalized ==
  /\ StoredLower
  /\ SbomCaseBlind
  /\ last.op = "IsOccurrence" =>
       last.out = {r \in db["occurrence"] :
                     isOccurrenceQuery(LowerOcc(last.in), r, db)}

\* the part of C19 that holds: SBOM ingestion and HasSBOM filters
C19_SbomNormalized == StoredLower /\ SbomCaseBlind

\* a HasSBOM filter with the digest in upper case returned the row that was
\* ingested with the digest in upper case
C19_UpperFound ==
  /\ last.op = "HasSBOM" /\ last.outcome = "ok"
  /\ last.in.Digest = "D1" /\ last.in.Algorithm = "SHA256"
  /\ \E r \in last.out : r.digest = "d1" /\ r.algorithm = "sha256"

-----------------------------------------------------------------------------
(* Properties of the artifact an occurrence references (Spec)              *)

\* the last call was an occurrence ingestion whose artifact was not in the
\* store
MissingArtifact ==
  /\ last.op = "IngestOccurrence"
  /\ \A a \in pre["artifact"] : a.key # last.in.art

(* C20: an occurrence ingestion whose artifact is not in the store returns *)
(* an error and commits nothing: no artifact, no occurrence, no identity   *)
(* node of its subject.                                                    *)
C20_ArtifactRequired ==
  MissingArtifact =>
     /\ last.err # NoErr
     /\ db = pre

\* the ingestion of an occurrence of a package that has no node yet failed
\* on the artifact lookup, with no store failure
C20_Witness ==
  /\ MissingArtifact /\ NoStoreFailure
  /\ last.in.pkg # NilPkg
  /\ last.err.kind = "notfound"
  /\ pre["pkgVersion"] = {}

-----------------------------------------------------------------------------
(* Properties of the hydration of query results (SpecQuery)                *)

\* the response model of the returned row r
ModelOf(r) == CHOOSE m \in last.models : m.ID = r.id

\* the name of the package name node of the package version id
StoredPkgName(id) ==
  LET v == CHOOSE x \in db["pkgVersion"] : x.id = id
  IN (CHOOSE n \in db["pkgName"] : n.id = v.name_id).name

(* C21: IsOccurrence returns one response per matching row; the subject of *)
(* a row of a package is populated at the four levels version, name,       *)
(* namespace and type, that of a row of a source at the levels name,       *)
(* namespace and type, and the artifact is populated, each with the value  *)
(* the store holds when the query is answered.                             *)
C21_SubjectHydrated ==
  last.op = "IsOccurrence" =>
     /\ {m.ID : m \in last.models} = Ids(last.out)
     /\ Cardinality(last.models) = Cardinality(last.out)
     /\ \A r \in last.out :
          LET m == ModelOf(r)
          IN /\ m.Artifact # Nil
             /\ \E a \in db["artifact"] :
                   a.id = r.artifact_id /\ a.key = m.Artifact
             /\ m.Subject.Name # Nil
             /\ m.Subject.Namespace # Nil
             /\ m.Subject.Type # Nil
             /\ r.package_id # NULL =>
                  /\ m.Subject.kind = "package"
                  /\ \E v \in db["pkgVersion"] :
                        v.id = r.package_id /\ v.version = m.Subject.Version
                  /\ m.Subject.Name = StoredPkgName(r.package_id)
             /\ r.package_id = NULL =>
                  /\ m.Subject.kind = "source"
                  /\ \E n \in db["srcName"] :
                        n.id = r.source_id /\ n.name = m.Subject.Name

\* a filter with a package subject returned two rows with the package
\* n1@v1 as their subject
C21_Witness ==
  /\ last.op = "IsOccurrence" /\ last.in # NilSpec
  /\ last.in.Subject # NilSpec
  /\ last.in.Subject.Package # NilSpec /\ last.in.Subject.Source = NilSpec
  /\ Cardinality(last.models) = 2
  /\ \A m \in last.models :
       /\ m.Subject.kind = "package" /\ m.Subject.Version = "v1"
       /\ m.Subject.Name = "n1" /\ m.Subject.Type = "n1"
       /\ m.Artifact = "a1"

\* a nil filter returned the row of a source with its chain populated
C21_SourceHydrated ==
  /\ last.op = "IsOccurrence" /\ last.in = NilSpec
  /\ \E m \in last.models :
       /\ m.Subject.kind = "source" /\ m.Subject.Name = "s1"
       /\ m.Subject.Namespace = "s1" /\ m.Subject.Type = "s1"

-----------------------------------------------------------------------------
(* Properties of input validation (Spec)                                   *)

\* the last call was an occurrence or SBOM ingestion whose subject has no
\* variant populated
NoSubject ==
  \/ last.op = "IngestOccurrence" /\ last.in.pkg = NilPkg /\ last.in.src = Nil
  \/ last.op = "IngestHasSbom" /\ last.in.pkg = NilPkg /\ last.in.art = Nil

(* C23: an occurrence or SBOM ingestion whose subject has no variant       *)
(* populated returns the invalid-argument error and has issued no store    *)
(* call: no transaction was begun and no lookup or insert was made.        *)
C23_ValidatedBeforeStore ==
  NoSubject =>
     /\ last.err.kind = "invalid"
     /\ last.calls = <<>>

\* the part of C23 that holds: the call returns an error and commits
\* nothing, and the store calls it issues are the beginning of the
\* transaction and, for an occurrence, the lookup of the artifact
C23_NothingCommitted ==
  NoSubject =>
     /\ last.err # NoErr
     /\ db = pre
     /\ \A i \in 1..Len(last.calls) : last.calls[i] \in {"begin", "artifact"}
     /\ (NoStoreFailure /\ last.op = "IngestHasSbom") =>
          last.err.kind = "invalid" /\ last.calls = <<"begin">>

\* an occurrence with no subject was rejected after the transaction was
\* begun and the artifact looked up
C23_LookupFirst ==
  /\ NoSubject /\ last.op = "IngestOccurrence"
  /\ last.err.kind = "invalid"
  /\ last.calls = <<"begin", "artifact">>

-----------------------------------------------------------------------------
(* Properties of a failing batch (SpecBatch)                               *)

\* a unit has returned an error to the batch call
BatchFailed(b) == b.err # NoErr

\* the error of the unit that returned an error first
FirstError(b, w) ==
  LET bad == {k \in 1..Len(b.order) : w[b.order[k]].err # NoErr}
  IN IF bad = {} THEN NoErr ELSE w[b.order[Min(bad)]].err

\* unit u begins its transaction in this step
BeginsTx(u) == wr[u].pc = "begin" /\ wr'[u].pc \notin {"begin", "done"}

(* C24: in a batch call, once a unit has returned an error no unit begins  *)
(* a transaction; the step in which a unit returns its error changes no    *)
(* other unit, and the call returns only when every unit it started has    *)
(* returned; the error the call returns is that of the unit that returned  *)
(* an error first.                                                         *)
C24_FailFast ==
  [][/\ BatchFailed(batch) => \A u \in Units : ~BeginsTx(u)
     /\ (~BatchFailed(batch) /\ BatchFailed(batch')) =>
          \A u \in Units : wr'[u] # wr[u] => wr[u].pc = "done"
     /\ (batch'.pc = "returned" /\ ~Sequential(batch')) =>
          \A u \in Units : wr'[u].pc \in {"idle", "returned"}
     /\ (batch'.pc = "returned" /\ batch'.out.err # NoErr) =>
          batch'.out.err = FirstError(batch', wr')]_vars

\* two units failed with different errors, the unit of the second input
\* first, and the call returned the error of that unit
C24_Witness ==
  /\ batch.pc = "returned" /\ ~Sequential(batch)
  /\ batch.order = <<2, 1>>
  /\ wr[1].err # NoErr /\ wr[2].err # NoErr /\ wr[1].err # wr[2].err
  /\ batch.out.err = wr[2].err

\* the unit of the first input has returned an error and the unit of the
\* second has failed at the begin of its transaction
C24_RefusedAtBegin ==
  /\ batch.cancelled
  /\ batch.order = <<1>>
  /\ wr[2].pc = "done" /\ wr[2].fault = "begin"

-----------------------------------------------------------------------------
(* Properties of what a failed batch leaves committed (SpecBatch)          *)

ReturnedError == batch.pc = "returned" /\ batch.out.err # NoErr

\* the relation of input item i is committed
Committed(i) ==
  FactRows(UnitCall(batch, i).op, UnitCall(batch, i).in) # {}

CommittedItems == {i \in 1..batch.n : Committed(i)}

(* C25: when a batch call has returned an error, the input items whose     *)
(* relation is committed are a prefix of the input: with item j every item *)
(* before it.                                                              *)
C25_CommittedPrefix ==
  (ReturnedError /\ ~Mismatched(batch)) =>
     \A j \in CommittedItems : \A i \in 1..(j - 1) : i \in CommittedItems

\* the part of C25 that holds: no step of a batch removes or changes a
\* committed relation row, and the items IngestHasSBOMs has committed when
\* it returns an error are a prefix of its input
C25_CommittedStay ==
  [][/\ \A t \in {"occurrence", "dependency", "sbom"} : db[t] \subseteq db'[t]
     /\ (Sequential(batch') /\ batch'.pc = "returned"
           /\ batch'.out.err # NoErr /\ ~Mismatched(batch')) =>
          \A j \in 1..batch'.n :
             wr'[j].pc = "returned" /\ wr'[j].err = NoErr =>
                \A k \in 1..(j - 1) :
                   wr'[k].pc = "returned" /\ wr'[k].err = NoErr]_vars

\* IngestDependencies has returned an error with the relation of its
\* second item committed and that of its first not
C25_SecondOnly ==
  /\ ReturnedError /\ ~Mismatched(batch)
  /\ batch.kind = "IngestDependencies" /\ batch.n = 2
  /\ CommittedItems = {2}

\* IngestHasSBOMs has returned an error with the relation of its first
\* item committed
C25_SbomPrefix ==
  /\ ReturnedError /\ ~Mismatched(batch)
  /\ Sequential(batch) /\ batch.n = 2
  /\ CommittedItems = {1}

-----------------------------------------------------------------------------
(* Properties of the SBOM fallback read (Spec)                             *)

\* the last call was an SBOM ingestion whose upsert met a row with its
\* scoped conflict key and reported no row
SbomConflict ==
  /\ last.op = "IngestHasSbom" /\ NoStoreFailure
  /\ OneSubject(last.in)
  /\ last.err.kind # "lookup"
  /\ PreFact # {}

\* the SBOM rows that carry the URI of the last call
SameUri == {r \in pre["sbom"] : r.uri = last.in.uri}

(* C26: an SBOM ingestion whose upsert reports no row returns without      *)
(* error the identifier of the row that has its scoped conflict key (URI,  *)
(* algorithm, digest, download location, known-since and subject),         *)
(* however many SBOM rows carry its URI.                                   *)
C26_FallbackByKey ==
  SbomConflict =>
     /\ last.err = NoErr
     /\ \E r \in PreFact : r.id = last.id

\* the part of C26 that holds: the call never returns the identifier of
\* another SBOM, and it returns that of the row with its key when no other
\* row carries the URI
C26_NeverOtherSbom ==
  SbomConflict =>
     /\ last.err = NoErr => \E r \in PreFact : r.id = last.id
     /\ Cardinality(SameUri) = 1 => last.err = NoErr
     /\ Cardinality(SameUri) > 1 => last.err.kind = "notsingular"

\* two SBOM rows carry the URI and the call failed on the fallback read
C26_NotSingular ==
  /\ SbomConflict
  /\ Cardinality(SameUri) = 2
  /\ last.err.kind = "notsingular"
  /\ \E r \in SameUri : r \notin PreFact

-----------------------------------------------------------------------------
(* Properties of an error result (Spec)                                    *)

ReturnedAnError == Called /\ last.err # NoErr

(* C27: a single ingestion that returns an error has committed no relation *)
(* row: its relation table is what it was before the call.                 *)
C27_ErrorMeansNoRow ==
  ReturnedAnError =>
     db[RelationOf(last.op)] = pre[RelationOf(last.op)]

\* the part of C27 that holds: IngestDependency and IngestHasSbom, which
\* return what their transaction returned
C27_DepSbomNoRow ==
  (ReturnedAnError /\ last.op \in {"IngestDependency", "IngestHasSbom"}) =>
     db = pre

\* the re-read of IngestOccurrence failed after its transaction had
\* committed a new row
C27_RowBehindError ==
  /\ ReturnedAnError /\ last.op = "IngestOccurrence"
  /\ last.fault = "reread" /\ last.id = NULL
  /\ Cardinality(db["occurrence"]) = Cardinality(pre["occurrence"]) + 1

-----------------------------------------------------------------------------
(* Properties of the normalisation of the include lists (SpecSbom)         *)

\* the input with each include list in ascending order, each identifier
\* once: what every input with the same four sets of identifiers becomes
Normalized(in) ==
  [in EXCEPT !.inc = Inc(SortAndRemoveDups(in.inc.Packages),
                         SortAndRemoveDups(in.inc.Artifacts),
                         SortAndRemoveDups(in.inc.Dependencies),
                         SortAndRemoveDups(in.inc.Occurrences))]

\* a list of the last call is out of order or repeats an identifier
Unnormalized == Normalized(last.in) # last.in

AllResolve == \A k \in 1..4 : Unresolved(IncludeOrder[k]) = {}

\* the SBOM call on the store before the last call, with input in
SbomOutcome(in) ==
  LET r == Run(pre, NewCall("IngestHasSbom", in), "none")
  IN [db |-> r.db, id |-> r.c.id, err |-> r.c.err]

C28_Permuted ==
  /\ last.op = "IngestHasSbom" /\ NoStoreFailure /\ last.err = NoErr
  /\ last.in.inc.Packages = <<2, 1>>
  /\ \E r \in NewSboms : /\ r.included_software_packages = {1, 2}
                          /\ r.included_occurrences = {1}

=============================================================================
